---- MODULE Spec2Model ----
(***************************************************************************)
(* Verification model of the bold-data-fun scripts.                        *)
(*                                                                         *)
(*   sunburst-plot/sunburst_script.py        -> SpecSunburst, SpecLoad     *)
(*   merge-tsv/bold_tsv_merger.py            -> SpecMerge (variant "tsv")  *)
(*   merge-tsv/bold_merged_tsv_merger.py     -> SpecMerge (variant "bold") *)
(*   extract-taxonomy/extract_taxonomy.py    -> SpecTaxonomy               *)
(*   csv-mapper/sample_mapper.py             -> SpecMapper                 *)
(*                                                                         *)
(* The scripts are independent batch transforms, so each has its own       *)
(* specification; the variables of the other scripts stay at their idle    *)
(* values.  SpecSunburst loads clean rows in row-count mode, one by one or *)
(* a whole file of up to 25 rows at once, and draws the chart; angles and  *)
(* colour components are IEEE 754 doubles, computed as Python computes     *)
(* them.  SpecLoad runs load_and_process_data alone, with missing values,  *)
(* both counting modes and files that cannot be loaded.  Where pandas      *)
(* leaves the order of equal counts open, SpecMapper takes every order.    *)
(***************************************************************************)
EXTENDS Integers, Sequences, FiniteSets, TLC

VARIABLES
    \* ---- sunburst generator
    sb_pc,              \* "start" | "loading" | "charted" | "error" | "exit"
    sb_args,            \* --threshold, --color-inherit-level, --color-mode, --label-threshold
    sb_exit,            \* <<>> unless main called sys.exit, else <<status>>
    n_levels,           \* len(active_levels)
    hierarchy,          \* nested count mapping, insertion ordered
    total_count,        \* total returned by load_and_process_data
    threshold_percent,  \* create_sunburst_chart argument
    segments,           \* the list of drawn segments
    labels,             \* the paths of the segments whose label was drawn
    sb_df,              \* the CSV file: readable or not, its columns, its rows
    sb_df_clean,        \* the rows left by dropna
    row_index,          \* the rows of df_clean iterated so far
    count_unique,       \* --count-unique
    \* ---- TSV mergers
    mg_pc,              \* "reading" | "written" | "failed"
    variant,            \* "tsv": bold_tsv_merger, "bold": bold_merged_tsv_merger
    folder,             \* the input files handled so far, in processing order
    header_rows,        \* per handled file, the row its columns were read from
    processed_files,    \* names of the files that took part in the merge
    merged_df,          \* <<>> for None, else <<table>>
    uuid_row,           \* bold_tsv_merger: <<>> for None, else <<fields>>
    file_data,          \* bold_merged_tsv_merger: [name, df] per kept file
    uuid_mappings,      \* bold_merged_tsv_merger: [name, mapping] per file
    output,             \* <<>> until written, else <<[uuid, cols, rows]>>
    conflict_warnings,  \* bold_merged_tsv_merger: the conflict warnings logged
    \* ---- taxonomy extractor
    tx_pc,              \* "processing" | "done"
    directories,        \* per handled directory, its tables and its results
    all_results,        \* the result rows gathered so far
    output_df,          \* <<>> until written, else <<[cols, rows]>>
    \* ---- choropleth mapper
    mp_pc,              \* "start" | "found" | "loaded" | "exit"
    mp_input,           \* command line, CSV file, shapefile and output directory
    country_counts,     \* <<>> for None, else <<series>> of [key, n]
    map_bounds,         \* <<>> until computed, else <<bounds>>
    map_region,         \* the features within the bounds, with sample_count
    unmatched_countries,\* data countries no feature was found for
    match_log,          \* the "Matched" and "Fuzzy matched" lines printed
    label_positions,    \* centroids of the labels drawn so far
    reported,           \* the error messages printed
    fallback_charts,    \* TRUE once create_fallback_charts has run
    exit_status         \* <<>> while running, else <<status>>

ldVars == <<sb_df, sb_df_clean, row_index, count_unique>>

sbVars == <<sb_pc, sb_args, sb_exit, n_levels, hierarchy, total_count, threshold_percent,
           segments, labels, ldVars>>

mgVars == <<mg_pc, variant, folder, header_rows, processed_files, merged_df,
            uuid_row, file_data, uuid_mappings, output, conflict_warnings>>

txVars == <<tx_pc, directories, all_results, output_df>>

mpVars == <<mp_pc, mp_input, country_counts, map_bounds, map_region,
           unmatched_countries, match_log, label_positions, reported, fallback_charts,
           exit_status>>

vars == <<sbVars, mgVars, txVars, mpVars>>

(***************************************************************************)
(* Generic helpers                                                         *)
(***************************************************************************)
Range(s) == {s[i] : i \in 1..Len(s)}

Max(a, b) == IF a >= b THEN a ELSE b

(***************************************************************************)
(* IEEE 754 double arithmetic, as Python floats compute it.                *)
(***************************************************************************)
LimbBase == 32768

MantissaBits == 53

\* A natural number of any size: its base-32768 digits, lowest first,
\* without leading zero digits (zero is the empty sequence).
RECURSIVE BigNorm(_)
BigNorm(x) ==
    IF x = <<>> THEN <<>>
    ELSE IF x[Len(x)] = 0 THEN BigNorm(SubSeq(x, 1, Len(x) - 1)) ELSE x

RECURSIVE BigFromInt(_)
BigFromInt(n) == IF n = 0 THEN <<>> ELSE <<n % LimbBase>> \o BigFromInt(n \div LimbBase)

Limb(x, i) == IF i <= Len(x) THEN x[i] ELSE 0

RECURSIVE BigAddFrom(_, _, _, _)
BigAddFrom(x, y, i, carry) ==
    IF i > Len(x) /\ i > Len(y)
    THEN IF carry = 0 THEN <<>> ELSE <<carry>>
    ELSE <<(Limb(x, i) + Limb(y, i) + carry) % LimbBase>>
             \o BigAddFrom(x, y, i + 1, (Limb(x, i) + Limb(y, i) + carry) \div LimbBase)

BigAdd(x, y) == BigAddFrom(x, y, 1, 0)

\* x - y for x >= y
RECURSIVE BigSubFrom(_, _, _, _)
BigSubFrom(x, y, i, borrow) ==
    IF i > Len(x) THEN <<>>
    ELSE LET s == Limb(x, i) - Limb(y, i) - borrow
         IN  IF s < 0
             THEN <<s + LimbBase>> \o BigSubFrom(x, y, i + 1, 1)
             ELSE <<s>> \o BigSubFrom(x, y, i + 1, 0)

BigSub(x, y) == BigNorm(BigSubFrom(x, y, 1, 0))

RECURSIVE BigLessFrom(_, _, _)
BigLessFrom(x, y, i) ==
    IF i = 0 THEN FALSE
    ELSE IF x[i] # y[i] THEN x[i] < y[i] ELSE BigLessFrom(x, y, i - 1)

BigLess(x, y) ==
    IF Len(x) # Len(y) THEN Len(x) < Len(y) ELSE BigLessFrom(x, y, Len(x))

RECURSIVE BigMulSmallFrom(_, _, _, _)
BigMulSmallFrom(x, k, i, carry) ==
    IF i > Len(x)
    THEN IF carry = 0 THEN <<>> ELSE <<carry>>
    ELSE <<(x[i] * k + carry) % LimbBase>>
             \o BigMulSmallFrom(x, k, i + 1, (x[i] * k + carry) \div LimbBase)

\* x * k for a digit k
BigMulSmall(x, k) == IF k = 0 THEN <<>> ELSE BigMulSmallFrom(x, k, 1, 0)

Zeros(n) == [i \in 1..n |-> 0]

\* The sum of the partial products x * y[j] * LimbBase^(j - 1) for j from
\* lo to hi.
RECURSIVE BigMulFrom(_, _, _, _)
BigMulFrom(x, y, lo, hi) ==
    IF lo = hi THEN Zeros(lo - 1) \o BigMulSmall(x, y[lo])
    ELSE BigAdd(BigMulFrom(x, y, lo, (lo + hi) \div 2),
                BigMulFrom(x, y, (lo + hi) \div 2 + 1, hi))

BigMul(x, y) == IF y = <<>> THEN <<>> ELSE BigNorm(BigMulFrom(x, y, 1, Len(y)))

\* Long division by a digit d from digit i of x downwards, r being the
\* remainder left by the higher digits: the quotient digits, highest first,
\* and the final remainder.
RECURSIVE BigDivSmallFrom(_, _, _, _)
BigDivSmallFrom(x, d, i, r) ==
    IF i = 0 THEN [q |-> <<>>, r |-> r]
    ELSE LET rest == BigDivSmallFrom(x, d, i - 1, (r * LimbBase + x[i]) % d)
         IN  [q |-> <<(r * LimbBase + x[i]) \div d>> \o rest.q, r |-> rest.r]

Reversed(s) == [i \in 1..Len(s) |-> s[Len(s) + 1 - i]]

\* floor(x / d) and x mod d for a digit d
BigDivSmall(x, d) ==
    LET res == BigDivSmallFrom(x, d, Len(x), 0)
    IN  [q |-> BigNorm(Reversed(res.q)), r |-> res.r]

RECURSIVE IntBitLen(_)
IntBitLen(n) == IF n = 0 THEN 0 ELSE 1 + IntBitLen(n \div 2)

BitLen(x) == IF x = <<>> THEN 0 ELSE 15 * (Len(x) - 1) + IntBitLen(x[Len(x)])

\* x * 2^bits
BigShl(x, bits) ==
    IF x = <<>> THEN <<>>
    ELSE Zeros(bits \div 15) \o BigMulSmall(x, 2 ^ (bits % 15))

\* floor(x / 2^bits)
BigShr(x, bits) ==
    IF bits \div 15 >= Len(x) THEN <<>>
    ELSE BigDivSmall(SubSeq(x, bits \div 15 + 1, Len(x)), 2 ^ (bits % 15)).q

\* bit number `bit` of x, bit 0 being the lowest
BigBit(x, bit) == (Limb(x, bit \div 15 + 1) \div 2 ^ (bit % 15)) % 2

\* whether x mod 2^bits is not zero
BigLowBits(x, bits) ==
    \/ \E i \in 1..(bits \div 15) : Limb(x, i) # 0
    \/ Limb(x, bits \div 15 + 1) % 2 ^ (bits % 15) # 0

\* A double is (-1)^neg * m * 2^e with m = 0 or 2^52 <= m < 2^53.
FloatZero == [neg |-> FALSE, m |-> <<>>, e |-> 0]

\* r * 2^e for r of 53 or 54 bits (54 when rounding up carried over).
Renormalized(neg, r, e) ==
    IF BitLen(r) > MantissaBits
    THEN [neg |-> neg, m |-> BigShr(r, 1), e |-> e + 1]
    ELSE [neg |-> neg, m |-> r, e |-> e]

\* q * 2^e with dropped low bits: q goes up by one when the dropped part is
\* above one half (half and below), or is one half and q is odd.
Nearest(neg, q, e, half, below) ==
    Renormalized(neg, IF half /\ (below \/ BigBit(q, 0) = 1) THEN BigAdd(q, <<1>>) ELSE q, e)

\* RoundToDouble for m of len bits.
RoundBits(neg, m, e, sticky, len) ==
    IF len = 0 THEN FloatZero
    ELSE IF len <= MantissaBits
    THEN [neg |-> neg, m |-> BigShl(m, MantissaBits - len), e |-> e - (MantissaBits - len)]
    ELSE Nearest(neg, BigShr(m, len - MantissaBits), e + (len - MantissaBits),
                 BigBit(m, len - MantissaBits - 1) = 1,
                 sticky \/ BigLowBits(m, len - MantissaBits - 1))

\* Round to nearest, ties to even: the double nearest to (m + t) * 2^e,
\* where 0 < t < 1 if sticky and t = 0 otherwise (m has 55 or more bits
\* whenever sticky).
RoundToDouble(neg, m, e, sticky) ==
    IF m = <<>> THEN FloatZero ELSE RoundBits(neg, m, e, sticky, BitLen(m))

\* float(n) for an int n
FloatFromInt(n) ==
    IF n = 0 THEN FloatZero
    ELSE RoundToDouble(n < 0, BigFromInt(IF n < 0 THEN -n ELSE n), 0, FALSE)

FloatNeg(x) == IF x.m = <<>> THEN x ELSE [x EXCEPT !.neg = ~x.neg]

\* x / d for a double x and an int d > 0
FloatDivInt(x, d) ==
    IF x.m = <<>> THEN FloatZero
    ELSE LET res == BigDivSmall(BigShl(x.m, 30), d)
         IN  RoundToDouble(x.neg, res.q, x.e - 30, res.r # 0)

\* a / b for ints a >= 0 and b > 0 (Python true division)
IntDiv(a, b) == FloatDivInt(FloatFromInt(a), b)

FloatMul(x, y) ==
    IF x.m = <<>> \/ y.m = <<>> THEN FloatZero
    ELSE RoundToDouble(x.neg # y.neg, BigMul(x.m, y.m), x.e + y.e, FALSE)

\* |x| < |y| for doubles
MagnitudeLess(x, y) ==
    IF y.m = <<>> THEN FALSE
    ELSE IF x.m = <<>> THEN TRUE
    ELSE IF x.e # y.e THEN x.e < y.e
    ELSE BigLess(x.m, y.m)

FloatLess(x, y) ==
    IF x.neg # y.neg THEN x.neg
    ELSE IF x.neg THEN MagnitudeLess(y, x) ELSE MagnitudeLess(x, y)

FloatMin(x, y) == IF FloatLess(y, x) THEN y ELSE x

\* hi + lo before rounding, a being hi.m shifted to the exponent of lo.
SumAtExponent(hi, lo, a) ==
    IF hi.neg = lo.neg
    THEN [neg |-> hi.neg, m |-> BigAdd(a, lo.m), e |-> lo.e, sticky |-> FALSE]
    ELSE IF BigLess(a, lo.m)
         THEN [neg |-> lo.neg, m |-> BigSub(lo.m, a), e |-> lo.e, sticky |-> FALSE]
         ELSE [neg |-> hi.neg, m |-> BigSub(a, lo.m), e |-> lo.e, sticky |-> FALSE]

\* hi + lo before rounding, hi being the operand of larger exponent and d
\* the difference of the exponents.  An operand more than 60 binary places
\* below the other only decides the rounding direction.
ExactSum(hi, lo, d) ==
    IF d > 60
    THEN [neg |-> hi.neg,
          m |-> IF hi.neg = lo.neg THEN BigShl(hi.m, 2) ELSE BigSub(BigShl(hi.m, 2), <<1>>),
          e |-> hi.e - 2, sticky |-> TRUE]
    ELSE SumAtExponent(hi, lo, BigShl(hi.m, d))

Rounded(sum) == RoundToDouble(sum.neg, sum.m, sum.e, sum.sticky)

\* x + y
FloatAdd(x, y) ==
    IF x.m = <<>> THEN y
    ELSE IF y.m = <<>> THEN x
    ELSE Rounded(IF x.e >= y.e THEN ExactSum(x, y, x.e - y.e) ELSE ExactSum(y, x, y.e - x.e))

FloatSub(x, y) == FloatAdd(x, FloatNeg(y))

FloatOne == FloatFromInt(1)

RECURSIVE BigToInt(_)
BigToInt(x) == IF x = <<>> THEN 0 ELSE x[1] + LimbBase * BigToInt(Tail(x))

\* int(x) for a double 0 <= x < 2^30
FloatToInt(x) == IF x.e >= 0 THEN BigToInt(BigShl(x.m, x.e)) ELSE BigToInt(BigShr(x.m, -x.e))

(***************************************************************************)
(* Sunburst generator: data model                                          *)
(*                                                                         *)
(* A Python dict is a sequence of entries in insertion order.  An entry    *)
(* whose value is an int has leaf = TRUE and the count in n; an entry      *)
(* whose value is a dict has leaf = FALSE and the child dict in kids.      *)
(***************************************************************************)
MaxRows == 4

FullCircle == 360

other_label == "Other"

\* The number of active level columns (--level1 to --level5, three of them
\* active by default) runs up to MaxLevels.
MaxLevels == 4

\* The values a row can hold in the five level columns.
LevelKeys == <<{"a", "b", "Other"}, {"x", "Other"}, {"p"}, {"m"}, {"n"}>>

\* The row values of the first n level columns.
RECURSIVE KeyPaths(_)
KeyPaths(n) ==
    IF n = 0 THEN {<<>>}
    ELSE {Append(ks, k) : ks \in KeyPaths(n - 1), k \in LevelKeys[n]}

LeafEntry(k, c) == [key |-> k, leaf |-> TRUE, n |-> c, kids |-> <<>>]

DictEntry(k, d) == [key |-> k, leaf |-> FALSE, n |-> 0, kids |-> d]

Keys(d) == {d[i].key : i \in 1..Len(d)}

IndexOf(d, k) == CHOOSE i \in 1..Len(d) : d[i].key = k

\* d[k] = e for a dict: overwrite in place, or append a new key at the end.
DictSet(d, e) ==
    IF e.key \in Keys(d)
    THEN [d EXCEPT ![IndexOf(d, e.key)] = e]
    ELSE Append(d, e)

\* The modelled keys in which other_label occurs as a substring.
KeysContainingLabel == {"Other", "Others"}

\* `other_label not in str(path)`: a substring test on the printed list of
\* keys; the label has no quote, comma or bracket, so it occurs in the
\* printed list exactly when it occurs inside one of the keys.
KeyContainsLabel(k) == k \in KeysContainingLabel

PathContainsLabel(path) == \E i \in 1..Len(path) : KeyContainsLabel(path[i])

RECURSIVE calculate_total_recursive(_)
RECURSIVE SumTotals(_)
SumTotals(d) ==
    IF d = <<>> THEN 0 ELSE calculate_total_recursive(Head(d)) + SumTotals(Tail(d))

calculate_total_recursive(e) == IF e.leaf THEN e.n ELSE SumTotals(e.kids)

(***************************************************************************)
(* load_and_process_data, row-count mode: one loop iteration per row.      *)
(***************************************************************************)
AddToLevel(d, k) ==
    IF k \in Keys(d)
    THEN [d EXCEPT ![IndexOf(d, k)].n = @ + 1]
    ELSE Append(d, LeafEntry(k, 1))

\* The loop of lines 52-66 over the active level values of one row: walk
\* down, creating the missing mappings, and count at the last level.
RECURSIVE AddRowToHierarchy(_, _)
AddRowToHierarchy(h, ks) ==
    IF Len(ks) = 1
    THEN AddToLevel(h, ks[1])
    ELSE LET sub == IF ks[1] \in Keys(h) THEN h[IndexOf(h, ks[1])].kids ELSE <<>>
         IN  DictSet(h, DictEntry(ks[1], AddRowToHierarchy(sub, Tail(ks))))

LoadRow ==
    /\ sb_pc = "loading"
    /\ total_count < MaxRows
    /\ \E ks \in KeyPaths(n_levels) :
          hierarchy' = AddRowToHierarchy(hierarchy, ks)
    /\ total_count' = total_count + 1
    /\ UNCHANGED <<sb_pc, sb_args, sb_exit, n_levels, threshold_percent, segments, labels>>
    /\ UNCHANGED <<ldVars, mgVars, txVars, mpVars>>

\* n consecutive rows of a CSV file with the same level values.
Rows(k1, k2, k3, n) == [ks |-> <<k1, k2, k3, "m", "n">>, n |-> n]

\* The loop body run on n consecutive equal rows: the leaf count gains n.
AddRowsToLevel(d, k, n) ==
    IF k \in Keys(d)
    THEN [d EXCEPT ![IndexOf(d, k)].n = @ + n]
    ELSE Append(d, LeafEntry(k, n))

RECURSIVE AddRows(_, _, _)
AddRows(h, ks, n) ==
    IF Len(ks) = 1
    THEN AddRowsToLevel(h, ks[1], n)
    ELSE LET sub == IF ks[1] \in Keys(h) THEN h[IndexOf(h, ks[1])].kids ELSE <<>>
         IN  DictSet(h, DictEntry(ks[1], AddRows(sub, Tail(ks), n)))

\* The values of a run in the active level columns.
ActiveKeys(run) == SubSeq(run.ks, 1, n_levels)

\* The hierarchy after the loop has run over the first i runs of the file.
RECURSIVE AddAllRows(_, _, _)
AddAllRows(h, file, i) ==
    IF i = 0 THEN h
    ELSE LET before == AddAllRows(h, file, i - 1)
         IN  IF before = <<>>
             THEN AddRows(<<>>, ActiveKeys(file[i]), file[i].n)
             ELSE AddRows(before, ActiveKeys(file[i]), file[i].n)

RECURSIVE RowCount(_)
RowCount(file) == IF file = <<>> THEN 0 ELSE Head(file).n + RowCount(Tail(file))

\* CSV files of 7 to 25 rows, as runs of equal rows: level-1 counts 1, 5, 1,
\* whose wedges of 360/7 and 5*360/7 degrees are rounded; counts 7, 7, 11,
\* where 7 is 28 % of the total; thirteen level-1 values; a level-1 value
\* 'Others' with three level-2 values; level-1 counts 7, 5, 4, 4, whose
\* second wedge is a quarter of the circle; a file with three and four
\* values in the third level column under one second-level value; and
\* level-1 counts 7, 5, 5, 3, with two quarters.
LargeFiles ==
    {<<Rows("b", "x", "p", 1), Rows("a", "x", "p", 5), Rows("c", "y", "p", 1)>>,
     <<Rows("a", "x", "p", 7), Rows("b", "x", "q", 7), Rows("c", "y", "p", 11)>>,
     <<Rows("k01", "x", "p", 1), Rows("k02", "x", "p", 1), Rows("k03", "x", "p", 1),
       Rows("k04", "x", "p", 1), Rows("k05", "x", "p", 1), Rows("k06", "x", "p", 1),
       Rows("k07", "x", "p", 1), Rows("k08", "x", "p", 1), Rows("k09", "x", "p", 1),
       Rows("k10", "x", "p", 1), Rows("k11", "x", "p", 1), Rows("k12", "x", "p", 1),
       Rows("k13", "y", "p", 1)>>,
     <<Rows("Others", "x", "p", 3), Rows("Others", "y", "p", 1), Rows("Others", "z", "p", 1),
       Rows("b", "x", "p", 5)>>,
     <<Rows("a", "x", "p", 7), Rows("b", "x", "p", 3), Rows("b", "x", "q", 2),
       Rows("c", "x", "p", 4), Rows("d", "y", "p", 4)>>,
     <<Rows("a", "x", "p", 4), Rows("a", "x", "q", 1), Rows("a", "x", "r", 1),
       Rows("a", "y", "p", 2), Rows("b", "x", "p", 5), Rows("b", "x", "q", 1),
       Rows("b", "x", "r", 1), Rows("b", "x", "s", 1), Rows("c", "x", "p", 1),
       Rows("d", "x", "p", 1)>>,
     <<Rows("a", "x", "p", 7), Rows("b", "x", "p", 5), Rows("c", "x", "p", 5),
       Rows("d", "y", "p", 3)>>}

\* The loop of load_and_process_data over all rows of one larger file.
LoadFile ==
    /\ sb_pc = "loading"
    /\ total_count = 0
    /\ \E file \in LargeFiles :
          /\ hierarchy' = AddAllRows(hierarchy, file, Len(file))
          /\ total_count' = RowCount(file)
    /\ UNCHANGED <<sb_pc, sb_args, sb_exit, n_levels, threshold_percent, segments, labels>>
    /\ UNCHANGED <<ldVars, mgVars, txVars, mpVars>>

(***************************************************************************)
(* aggregate_small_slices: the returned mapping (the list of aggregated    *)
(* keys only feeds the printed summary).                                   *)
(***************************************************************************)
\* threshold_count = (threshold_percent / 100.0) * total_for_level
threshold_count(percent, total_for_level) ==
    FloatMul(FloatDivInt(FloatFromInt(percent), 100), FloatFromInt(total_for_level))

\* item_count >= threshold_count
AtOrAboveThreshold(e, percent, total_for_level) ==
    ~FloatLess(FloatFromInt(calculate_total_recursive(e)),
               threshold_count(percent, total_for_level))

MainItems(data_dict, percent, total_for_level) ==
    SelectSeq(data_dict, LAMBDA e : AtOrAboveThreshold(e, percent, total_for_level))

SmallItems(data_dict, percent, total_for_level) ==
    SelectSeq(data_dict, LAMBDA e : ~AtOrAboveThreshold(e, percent, total_for_level))

\* The condition without `len(small_items) > 1`.
AggregatesAnySmallItem(small_items) ==
    Len(small_items) > 0 /\ SumTotals(small_items) > 0

\* `if small_items and len(small_items) > 1 and other_total > 0`
WorthAggregating(small_items) ==
    /\ Len(small_items) > 1
    /\ SumTotals(small_items) > 0

aggregate_small_slices(data_dict, percent, total_for_level) ==
    IF percent <= 0
    THEN data_dict
    ELSE LET main_items  == MainItems(data_dict, percent, total_for_level)
             small_items == SmallItems(data_dict, percent, total_for_level)
         IN  IF WorthAggregating(small_items)
             THEN DictSet(main_items, LeafEntry(other_label, SumTotals(small_items)))
             ELSE data_dict

(***************************************************************************)
(* create_sunburst_chart.process_level                                     *)
(***************************************************************************)
RECURSIVE InsertDesc(_, _)
InsertDesc(sorted, e) ==
    IF sorted = <<>> THEN <<e>>
    ELSE IF calculate_total_recursive(Head(sorted)) >= calculate_total_recursive(e)
         THEN <<Head(sorted)>> \o InsertDesc(Tail(sorted), e)
         ELSE <<e>> \o sorted

\* The items left in insertion order.
KeepsInsertionOrder(d) == d

\* sorted(items, key=..., reverse=True): stable, largest first.
RECURSIVE SortDesc(_)
SortDesc(d) ==
    IF d = <<>> THEN <<>> ELSE InsertDesc(SortDesc(SubSeq(d, 1, Len(d) - 1)), d[Len(d)])

\* `isinstance(list(d.values())[0], int)` selects int arithmetic for the
\* whole level: an empty level raises IndexError, and a level whose first
\* value is an int while another is a dict raises TypeError.
LevelRaises(d) ==
    \/ d = <<>>
    \/ d[1].leaf /\ \E i \in 1..Len(d) : ~d[i].leaf

NoSegments == [ok |-> TRUE, segs |-> <<>>]

Raised == [ok |-> FALSE, segs |-> <<>>]

\* A colour is a hex string or a tuple of floats; either way its three
\* components are held as the doubles int(.., 16) / 255.
HexColor(r, g, b) == [hex |-> TRUE, rgb |-> [c \in 1..3 |-> IntDiv(<<r, g, b>>[c], 255)]]

RgbColor(r, g, b) == [hex |-> FALSE, rgb |-> <<r, g, b>>]

TupleColor(rgb) == RgbColor(rgb[1], rgb[2], rgb[3])

\* parent_color of the first level
None == [hex |-> FALSE, rgb |-> <<>>]

\* '#BB8FCE', '#4ECDC4', ... : the two hex digits of each component.
base_color_hex ==
    <<<<187, 143, 206>>, <<78, 205, 196>>, <<69, 183, 209>>, <<150, 206, 180>>,
      <<255, 234, 167>>, <<221, 160, 221>>, <<152, 216, 200>>, <<255, 107, 107>>,
      <<247, 220, 111>>, <<133, 193, 233>>, <<248, 196, 113>>, <<130, 224, 170>> >>

base_colors ==
    [i \in 1..Len(base_color_hex) |->
        HexColor(base_color_hex[i][1], base_color_hex[i][2], base_color_hex[i][3])]

\* The qualitative colormaps of matplotlib (ColorBrewer), one (r, g, b) per
\* entry in units of 1/255.
Set1 ==
    <<<<228, 26, 28>>, <<55, 126, 184>>, <<77, 175, 74>>, <<152, 78, 163>>,
      <<255, 127, 0>>, <<255, 255, 51>>, <<166, 86, 40>>, <<247, 129, 191>>,
      <<153, 153, 153>> >>

Set2 ==
    <<<<102, 194, 165>>, <<252, 141, 98>>, <<141, 160, 203>>, <<231, 138, 195>>,
      <<166, 216, 84>>, <<255, 217, 47>>, <<229, 196, 148>>, <<179, 179, 179>> >>

Set3 ==
    <<<<141, 211, 199>>, <<255, 255, 179>>, <<190, 186, 218>>, <<251, 128, 114>>,
      <<128, 177, 211>>, <<253, 180, 98>>, <<179, 222, 105>>, <<252, 205, 229>>,
      <<217, 217, 217>>, <<188, 128, 189>>, <<204, 235, 197>>, <<255, 237, 111>> >>

Paired ==
    <<<<166, 206, 227>>, <<31, 120, 180>>, <<178, 223, 138>>, <<51, 160, 44>>,
      <<251, 154, 153>>, <<227, 26, 28>>, <<253, 191, 111>>, <<255, 127, 0>>,
      <<202, 178, 214>>, <<106, 61, 154>>, <<255, 255, 153>>, <<177, 89, 40>> >>

Dark2 ==
    <<<<27, 158, 119>>, <<217, 95, 2>>, <<117, 112, 179>>, <<231, 41, 138>>,
      <<102, 166, 30>>, <<230, 171, 2>>, <<166, 118, 29>>, <<102, 102, 102>> >>

colormaps == <<Set1, Set2, Set3, Paired, Dark2>>

\* cmap(x) for 0 <= x < 1: the entry int(x * N) of a listed colormap of N
\* colours, as a tuple of floats.
ColormapColor(cmap, x) ==
    TupleColor([c \in 1..3 |->
                  IntDiv(cmap[FloatToInt(FloatMul(x, FloatFromInt(Len(cmap)))) + 1][c], 255)])

\* Up to 12 colours: the hand-picked ones.  More: colormaps[i // 9 % 5]
\* at (i % 9) / 9, for i = 0 .. n_colors - 1.
generate_distinct_colors(n_colors) ==
    IF n_colors <= 12
    THEN [i \in 1..n_colors |-> base_colors[((i - 1) % Len(base_colors)) + 1]]
    ELSE [i \in 1..n_colors |->
            ColormapColor(colormaps[(((i - 1) \div 9) % Len(colormaps)) + 1],
                          IntDiv((i - 1) % 9, 9))]

\* The literals 0.3, 0.7 and 0.9
Float03 == IntDiv(3, 10)

Float07 == IntDiv(7, 10)

Float09 == IntDiv(9, 10)

\* min(1.0, c * factor + (1 - factor) * 0.9)
Lighten(c, factor) ==
    FloatMin(FloatOne,
             FloatAdd(FloatMul(c, factor), FloatMul(FloatSub(FloatOne, factor), Float09)))

\* factor = 0.3 + (0.7 * i / (n_variations - 1)) runs from 0.3 to 1.0 over
\* the n_variations shades.
generate_color_variations(base_color, n_variations) ==
    IF n_variations = 1 THEN <<base_color>>
    ELSE [i \in 1..n_variations |->
            TupleColor([c \in 1..3 |->
                Lighten(base_color.rgb[c],
                        FloatAdd(Float03,
                                 FloatDivInt(FloatMul(Float07, FloatFromInt(i - 1)),
                                             n_variations - 1)))])]

\* base_color_map: the level-1 keys, largest first, with their colours.
base_color_map(items_sorted) ==
    LET level1_colors == generate_distinct_colors(Len(items_sorted))
    IN  [i \in 1..Len(items_sorted) |->
            [key |-> items_sorted[i].key, color |-> level1_colors[i]]]

\* base_color_map.get(key, '#CCCCCC')
BaseColor(map, key) ==
    IF \E i \in 1..Len(map) : map[i].key = key
    THEN map[CHOOSE i \in 1..Len(map) : map[i].key = key].color
    ELSE HexColor(204, 204, 204)

\* Every level is given distinct colours.
AlwaysDistinctColors(items_sorted, level, parent_color, level1_sorted) ==
    generate_distinct_colors(Len(items_sorted))

\* The colours of one level's items (lines 269-287).
LevelColors(items_sorted, level, parent_color, level1_sorted) ==
    IF level + 1 <= sb_args.color_inherit_level
    THEN IF level = 0
         THEN LET map == base_color_map(level1_sorted)
              IN  [i \in 1..Len(items_sorted) |-> BaseColor(map, items_sorted[i].key)]
         ELSE generate_distinct_colors(Len(items_sorted))
    ELSE IF sb_args.color_mode = "same"
         THEN [i \in 1..Len(items_sorted) |-> parent_color]
         ELSE generate_color_variations(parent_color, Len(items_sorted))

\* angle_size = (item_total / total_for_level) * parent_angle_size, for
\* every item of the level.
AngleSizes(items_sorted, total_for_level, parent_angle_size) ==
    [i \in 1..Len(items_sorted) |->
        FloatMul(IntDiv(calculate_total_recursive(items_sorted[i]), total_for_level),
                 parent_angle_size)]

\* The values of current_angle in the loop of lines 289-318: before the
\* first iteration and after each of the first i, every one the sum of the
\* one before it and the item's angle_size.
RECURSIVE CurrentAngles(_, _, _)
CurrentAngles(angle_sizes, i, parent_angle_start) ==
    IF i = 0 THEN <<parent_angle_start>>
    ELSE LET before == CurrentAngles(angle_sizes, i - 1, parent_angle_start)
         IN  Append(before, FloatAdd(before[i], angle_sizes[i]))

\* The segments the loop appends for the items of the level themselves,
\* each from current_angle to current_angle + angle_size.
LevelSegments(items_sorted, current_angles, level_colors, level, path) ==
    [i \in 1..Len(items_sorted) |->
        [level       |-> level + 1,
         start_angle |-> current_angles[i],
         end_angle   |-> current_angles[i + 1],
         color       |-> level_colors[i],
         key         |-> items_sorted[i].key,
         value       |-> calculate_total_recursive(items_sorted[i]),
         path        |-> Append(path, items_sorted[i].key)]]

RECURSIVE process_level(_, _, _, _, _, _, _, _)
RECURSIVE LayoutItems(_, _, _, _, _, _, _)
\* What iterations lo to hi of the loop append to the list of segments:
\* each item's own segment followed by the segments of its recursive call.
LayoutItems(items_sorted, own, angle_sizes, lo, hi, percent, level1_sorted) ==
    IF lo > hi THEN NoSegments
    ELSE IF lo = hi
    THEN LET e   == items_sorted[lo]
             seg == own[lo]
             sub == IF seg.level < n_levels /\ ~e.leaf
                    THEN process_level(e.kids, seg.level, seg.start_angle, angle_sizes[lo],
                                       seg.color, seg.path, percent, level1_sorted)
                    ELSE NoSegments
         IN  IF sub.ok THEN [ok |-> TRUE, segs |-> <<seg>> \o sub.segs] ELSE Raised
    ELSE LET mid    == (lo + hi) \div 2
             first  == LayoutItems(items_sorted, own, angle_sizes, lo, mid, percent,
                                   level1_sorted)
             second == LayoutItems(items_sorted, own, angle_sizes, mid + 1, hi, percent,
                                   level1_sorted)
         IN  IF first.ok /\ second.ok
             THEN [ok |-> TRUE, segs |-> first.segs \o second.segs]
             ELSE Raised

\* Lines 258-318 for the items of one level, sorted by count.
LayoutLevel(items_sorted, angle_sizes, parent_angle_start, level_colors, level, path, percent, level1_sorted) ==
    LayoutItems(items_sorted,
                LevelSegments(items_sorted,
                              CurrentAngles(angle_sizes, Len(items_sorted), parent_angle_start),
                              level_colors, level, path),
                angle_sizes, 1, Len(items_sorted), percent, level1_sorted)

process_level(data_dict, level, parent_angle_start, parent_angle_size, parent_color, path, percent, level1_sorted) ==
    IF level >= n_levels THEN NoSegments
    ELSE LET aggregates == percent > 0 /\ level > 0 /\ ~PathContainsLabel(path)
             processed_data ==
                 IF aggregates
                 THEN aggregate_small_slices(data_dict, percent, SumTotals(data_dict))
                 ELSE data_dict
         IN  IF (aggregates /\ LevelRaises(data_dict)) \/ LevelRaises(processed_data)
             THEN Raised
             ELSE LayoutLevel(SortDesc(processed_data),
                              AngleSizes(SortDesc(processed_data), SumTotals(processed_data),
                                         parent_angle_size),
                              parent_angle_start,
                              LevelColors(SortDesc(processed_data), level, parent_color,
                                          level1_sorted),
                              level, path, percent, level1_sorted)

(***************************************************************************)
(* create_sunburst_chart: level-1 aggregation, then the recursive layout.  *)
(***************************************************************************)
processed_hierarchy(h, percent) ==
    IF percent > 0 THEN aggregate_small_slices(h, percent, SumTotals(h)) ELSE h

FloatFullCircle == FloatFromInt(FullCircle)

create_sunburst_chart(h, percent) ==
    process_level(processed_hierarchy(h, percent), 0, FloatZero, FloatFullCircle,
                  None, <<>>, percent, SortDesc(processed_hierarchy(h, percent)))

\* A label is drawn for every segment.
LabelsEverySegment(angle_size, label_threshold) == TRUE

\* show_label = angle_size > label_threshold
show_label(angle_size, label_threshold) == FloatLess(FloatFromInt(label_threshold), angle_size)

\* The drawing loop: the paths of the segments that get a label.
DrawLabels(segs, label_threshold) ==
    LET shown == SelectSeq(segs, LAMBDA seg :
                    show_label(FloatSub(seg.end_angle, seg.start_angle), label_threshold))
    IN [i \in 1..Len(shown) |-> shown[i].path]

Arguments(threshold, color_inherit_level, color_mode, label_threshold) ==
    [threshold |-> threshold, color_inherit_level |-> color_inherit_level,
     color_mode |-> color_mode, label_threshold |-> label_threshold]

\* Command lines that main accepts when the levels allow it.  The default
\* label threshold is 5 degrees; 90 degrees is met exactly by a quarter.
ChartArguments ==
    {Arguments(0, 1, "variations", 5),
     Arguments(0, 2, "variations", 90),
     Arguments(50, 1, "same", 90),
     Arguments(28, 2, "same", 5)}

\* Command lines with --threshold outside 0..100 or --color-inherit-level
\* outside 1..5.
BadArguments ==
    {Arguments(-1, 1, "variations", 5),
     Arguments(101, 1, "same", 5),
     Arguments(0, 0, "variations", 5),
     Arguments(50, 6, "same", 90)}

\* Every inheritance level is accepted.
AcceptsAnyInheritLevel(args, active_levels) == args.threshold < 0 \/ args.threshold > 100

\* main, lines 503 and 511
Rejects(args, active_levels) ==
    \/ args.threshold < 0 \/ args.threshold > 100
    \/ args.color_inherit_level < 1 \/ args.color_inherit_level > active_levels

\* main, lines 500-513: the arguments are validated before anything is read.
ValidateArguments ==
    /\ sb_pc = "start"
    /\ IF Rejects(sb_args, n_levels)
       THEN /\ sb_pc' = "exit"
            /\ sb_exit' = <<1>>
       ELSE /\ sb_pc' = "loading"
            /\ UNCHANGED sb_exit
    /\ UNCHANGED <<sb_args, n_levels, hierarchy, total_count, threshold_percent, segments,
                   labels>>
    /\ UNCHANGED <<ldVars, mgVars, txVars, mpVars>>

CreateChart ==
    /\ sb_pc = "loading"
    /\ \E drawn \in {create_sunburst_chart(hierarchy, sb_args.threshold)} :
           /\ threshold_percent' = sb_args.threshold
           /\ segments' = drawn.segs
           /\ labels' = DrawLabels(drawn.segs, sb_args.label_threshold)
           /\ sb_pc' = IF drawn.ok THEN "charted" ELSE "error"
    /\ UNCHANGED <<sb_args, sb_exit, n_levels, hierarchy, total_count>>
    /\ UNCHANGED <<ldVars, mgVars, txVars, mpVars>>

\* The variables of load_and_process_data while it is not modelled in full.
LoadIdle ==
    /\ sb_df = <<>>
    /\ sb_df_clean = <<>>
    /\ row_index = 0
    /\ count_unique = FALSE

SunburstInit ==
    /\ sb_pc = "start"
    /\ sb_args \in ChartArguments \cup BadArguments
    /\ sb_exit = <<>>
    /\ n_levels \in 1..MaxLevels
    /\ hierarchy = <<>>
    /\ total_count = 0
    /\ threshold_percent = 0
    /\ segments = <<>>
    /\ labels = <<>>
    /\ LoadIdle

SunburstIdle ==
    /\ sb_pc = "idle"
    /\ sb_args = <<>>
    /\ sb_exit = <<>>
    /\ n_levels = 0
    /\ hierarchy = <<>>
    /\ total_count = 0
    /\ threshold_percent = 0
    /\ segments = <<>>
    /\ labels = <<>>
    /\ LoadIdle

SunburstNext == ValidateArguments \/ LoadRow \/ LoadFile \/ CreateChart

(***************************************************************************)
(* load_and_process_data in full, on small CSV tables: missing values,     *)
(* padded values and both counting modes.  A row is [sid, l1, l2]; the     *)
(* second level column is active when n_levels = 2.                        *)
(***************************************************************************)
MaxTableRows == 2

\* A missing cell (NaN after pd.read_csv).
MissingValue == "#NA"

\* The cell values that carry surrounding blanks, with what strip() leaves.
PaddedValues == {<<"s1 ", "s1">>, <<" a", "a">>}

\* str(value).strip()
Strip(s) ==
    IF \E p \in PaddedValues : p[1] = s
    THEN (CHOOSE p \in PaddedValues : p[1] = s)[2]
    ELSE s

TableRow(sid, l1, l2) == [sid |-> sid, l1 |-> l1, l2 |-> l2]

\* The rows dropna keeps although the sample-ID cell is missing.
KeepsRowsWithoutSampleId(row, n_active) ==
    /\ row.l1 # MissingValue
    /\ n_active = 2 => row.l2 # MissingValue

\* No value is missing in required_cols = [sample_id_col] + active_levels.
HasRequiredValues(row, n_active) ==
    /\ row.sid # MissingValue
    /\ row.l1 # MissingValue
    /\ n_active = 2 => row.l2 # MissingValue

\* df.dropna(subset=required_cols)
DropMissing(rows, n_active) == SelectSeq(rows, LAMBDA r : HasRequiredValues(r, n_active))

\* A last-level entry of count_unique mode: the set of sample IDs seen.
SetEntry(k, ids) == [key |-> k, leaf |-> TRUE, n |-> 0, kids |-> <<>>, ids |-> ids]

\* current_level[key].add(sample_id)
AddIdToLevel(d, k, sid) ==
    IF k \in Keys(d)
    THEN [d EXCEPT ![IndexOf(d, k)].ids = @ \cup {sid}]
    ELSE Append(d, SetEntry(k, {sid}))

\* One iteration of `for _, row in df_clean.iterrows()`.
AddCleanRow(h, row, unique) ==
    LET k1  == Strip(row.l1)
        k2  == Strip(row.l2)
        sid == Strip(row.sid)
        sub == IF k1 \in Keys(h) THEN h[IndexOf(h, k1)].kids ELSE <<>>
    IN  IF ~unique THEN AddRowToHierarchy(h, IF n_levels = 1 THEN <<k1>> ELSE <<k1, k2>>)
        ELSE IF n_levels = 1 THEN AddIdToLevel(h, k1, sid)
        ELSE DictSet(h, DictEntry(k1, AddIdToLevel(sub, k2, sid)))

\* convert_sets_to_counts
RECURSIVE convert_sets_to_counts(_)
convert_sets_to_counts(d) ==
    [i \in 1..Len(d) |->
        IF d[i].leaf
        THEN LeafEntry(d[i].key, Cardinality(d[i].ids))
        ELSE DictEntry(d[i].key, convert_sets_to_counts(d[i].kids))]

\* required_cols = [sample_id_col] + active_levels
required_cols(n_active) == IF n_active = 1 THEN {"sid", "l1"} ELSE {"sid", "l1", "l2"}

\* pd.read_csv raises, or a required column is not in df.columns and
\* ValueError is raised (lines 29-31).
LoadRaises(file, n_active) ==
    \/ ~file.readable
    \/ ~(required_cols(n_active) \subseteq file.columns)

\* Lines 21-34: the CSV is read and the rows with missing data are dropped;
\* an exception is printed by `except Exception` and ends the run with
\* sys.exit(1) (lines 74-76).
ReadCsv ==
    /\ sb_pc = "csv"
    /\ IF LoadRaises(sb_df, n_levels)
       THEN /\ sb_pc' = "exit"
            /\ sb_exit' = <<1>>
            /\ UNCHANGED <<sb_df_clean, row_index>>
       ELSE /\ sb_df_clean' = DropMissing(sb_df.rows, n_levels)
            /\ row_index' = 0
            /\ sb_pc' = "rows"
            /\ UNCHANGED sb_exit
    /\ UNCHANGED <<sb_args, n_levels, hierarchy, total_count, threshold_percent,
                   segments, labels, sb_df, count_unique>>
    /\ UNCHANGED <<mgVars, txVars, mpVars>>

\* Lines 46-56: one row of df_clean.
IterRow ==
    /\ sb_pc = "rows"
    /\ row_index < Len(sb_df_clean)
    /\ row_index' = row_index + 1
    /\ hierarchy' = AddCleanRow(hierarchy, sb_df_clean[row_index + 1], count_unique)
    /\ UNCHANGED <<sb_pc, sb_args, sb_exit, n_levels, total_count, threshold_percent,
                   segments, labels, sb_df, sb_df_clean, count_unique>>
    /\ UNCHANGED <<mgVars, txVars, mpVars>>

\* Lines 58-72: the sets become counts and the total is taken.
ReturnHierarchy ==
    /\ sb_pc = "rows"
    /\ row_index = Len(sb_df_clean)
    /\ IF count_unique
       THEN /\ hierarchy' = convert_sets_to_counts(hierarchy)
            /\ total_count' = SumTotals(convert_sets_to_counts(hierarchy))
       ELSE /\ total_count' = Len(sb_df_clean)
            /\ UNCHANGED hierarchy
    /\ sb_pc' = "loaded"
    /\ UNCHANGED <<sb_args, sb_exit, n_levels, threshold_percent, segments, labels,
                   sb_df, sb_df_clean, row_index, count_unique>>
    /\ UNCHANGED <<mgVars, txVars, mpVars>>

SampleIdValues == {"s1", "s1 ", "s2", MissingValue}

Level1Values == {"a", " a", MissingValue}

Level2Values == {"x", MissingValue}

TableRows ==
    {TableRow(sid, l1, l2) : sid \in SampleIdValues, l1 \in Level1Values, l2 \in Level2Values}

\* The tables of at most MaxTableRows rows.
Tables == UNION {[1..n -> TableRows] : n \in 0..MaxTableRows}

HierarchyCsv(columns, rows) == [readable |-> TRUE, columns |-> columns, rows |-> rows]

\* A file pd.read_csv cannot parse, or that does not exist.
UnreadableCsv == [readable |-> FALSE, columns |-> {}, rows |-> <<>>]

\* The CSV files: every table with all three columns, one-row files without
\* the second level column or without the sample-ID column, and a file that
\* cannot be read.
HierarchyCsvFiles ==
    {HierarchyCsv({"sid", "l1", "l2"}, t) : t \in Tables}
        \cup {HierarchyCsv({"sid", "l1"}, <<TableRow(sid, l1, MissingValue)>>) :
                 sid \in SampleIdValues, l1 \in Level1Values}
        \cup {HierarchyCsv({"l1", "l2"}, <<TableRow(MissingValue, l1, l2)>>) :
                 l1 \in Level1Values, l2 \in Level2Values}
        \cup {UnreadableCsv}

LoadInit ==
    /\ sb_pc = "csv"
    /\ sb_args = <<>>
    /\ sb_exit = <<>>
    /\ n_levels \in {1, 2}
    /\ hierarchy = <<>>
    /\ total_count = 0
    /\ threshold_percent = 0
    /\ segments = <<>>
    /\ labels = <<>>
    /\ sb_df \in HierarchyCsvFiles
    /\ sb_df_clean = <<>>
    /\ row_index = 0
    /\ count_unique \in BOOLEAN

LoadNext == ReadCsv \/ IterRow \/ ReturnHierarchy

(***************************************************************************)
(* Sunburst generator: properties                                          *)
(***************************************************************************)
AngleSize(seg) == FloatSub(seg.end_angle, seg.start_angle)

\* A millionth of a degree.
Tolerance == FloatMul(IntDiv(1, 1000), IntDiv(1, 1000))

\* Two angles that differ by less than a millionth of a degree.
Near(x, y) == MagnitudeLess(FloatSub(x, y), Tolerance)

GrandTotal == SumTotals(hierarchy)

\* Some level of h that process_level aggregates holds an entry named
\* other_label at or above the threshold next to two or more small entries:
\* main_items[other_label] = other_total then overwrites that entry.
LabelClash(d, percent) ==
    LET total == SumTotals(d)
    IN  /\ percent > 0
        /\ WorthAggregating(SmallItems(d, percent, total))
        /\ other_label \in Keys(MainItems(d, percent, total))

\* C1: every wedge produced by create_sunburst_chart, at every level and for
\* every threshold, spans 360 degrees times its subtree count divided by the
\* grand total of the hierarchy.
C1_WedgeProportional ==
    sb_pc = "charted" =>
        \A i \in 1..Len(segments) :
            Near(FloatMul(AngleSize(segments[i]), FloatFromInt(GrandTotal)),
                 FloatFromInt(FullCircle * segments[i].value))

ParentPath(seg) == SubSeq(seg.path, 1, Len(seg.path) - 1)

\* The (key, count) pairs drawn directly under `path`.
DrawnPairs(path) ==
    {<<segments[i].key, segments[i].value>> :
        i \in {j \in 1..Len(segments) : segments[j].path = Append(path, segments[j].key)}}

DrawnCount(path) ==
    Cardinality({j \in 1..Len(segments) : segments[j].path = Append(path, segments[j].key)})

Pairs(d) == {<<d[i].key, calculate_total_recursive(d[i])>> : i \in 1..Len(d)}

\* Below threshold_percent % of the level total, as a comparison of numbers.
IsSmall(e, d) == calculate_total_recursive(e) * 100 < threshold_percent * SumTotals(d)

SmallSet(d) == {i \in 1..Len(d) : IsSmall(d[i], d)}

\* Below the double (threshold_percent / 100.0) * total the code compares
\* with: for 28 % of 25 that double is 7.000000000000001, and a count of 7
\* is below it.
BelowThresholdCount(e, d) == ~AtOrAboveThreshold(e, threshold_percent, SumTotals(d))

SmallItemSet(d) == {i \in 1..Len(d) : BelowThresholdCount(d[i], d)}

RECURSIVE SumOver(_, _)
SumOver(d, idx) ==
    IF idx = {} THEN 0
    ELSE LET i == CHOOSE j \in idx : TRUE
         IN  calculate_total_recursive(d[i]) + SumOver(d, idx \ {i})

\* The level as the claim describes it: every small sibling folded into one
\* other_label entry, every other sibling kept.
FoldedPairs(d) ==
    {<<d[i].key, calculate_total_recursive(d[i])>> : i \in (1..Len(d)) \ SmallSet(d)}
        \cup (IF SmallSet(d) = {} THEN {} ELSE {<<other_label, SumOver(d, SmallSet(d))>>})

\* C2 (as stated) for the level drawn under `path` and the levels below it.
RECURSIVE DrawnAsStated(_, _)
DrawnAsStated(d, path) ==
    /\ DrawnPairs(path) = FoldedPairs(d)
    /\ \A i \in (1..Len(d)) \ SmallSet(d) :
          (~d[i].leaf /\ Len(path) + 1 < n_levels) =>
              DrawnAsStated(d[i].kids, Append(path, d[i].key))

\* C2 (as stated): with a positive threshold, at every drawn level every
\* sibling below the threshold is removed and counted in a single other_label
\* entry, and every sibling at or above the threshold is kept unchanged.
C2_EverySmallSiblingFolded ==
    (sb_pc = "charted" /\ threshold_percent > 0) => DrawnAsStated(hierarchy, <<>>)

\* The siblings of the level under `path` that are folded: the ones below
\* the threshold count when there are two or more of them, and none when a
\* key of the parent path contains other_label.
FoldedSet(d, path) ==
    IF PathContainsLabel(path) \/ Cardinality(SmallItemSet(d)) < 2
    THEN {}
    ELSE SmallItemSet(d)

\* The level after folding: the kept siblings and the other_label entry.
KeptPairs(d, folded) ==
    {<<d[i].key, calculate_total_recursive(d[i])>> : i \in (1..Len(d)) \ folded}
        \cup (IF folded = {} THEN {} ELSE {<<other_label, SumOver(d, folded)>>})

\* A sibling that is not folded bears the name of the folded entry.
KeptEntryNamedOther(d, folded) ==
    folded # {} /\ \E i \in (1..Len(d)) \ folded : d[i].key = other_label

\* C2 (amended) for the level drawn under `path` and the levels below it.
RECURSIVE DrawnAsFolded(_, _)
DrawnAsFolded(d, path) ==
    /\ ~KeptEntryNamedOther(d, FoldedSet(d, path)) =>
          /\ DrawnPairs(path) = KeptPairs(d, FoldedSet(d, path))
          /\ DrawnCount(path) = Cardinality(KeptPairs(d, FoldedSet(d, path)))
    /\ FoldedSet(d, path) # {} => DrawnPairs(Append(path, other_label)) = {}
    /\ \A i \in (1..Len(d)) \ FoldedSet(d, path) :
          (/\ ~d[i].leaf
           /\ Len(path) + 1 < n_levels
           /\ ~(FoldedSet(d, path) # {} /\ d[i].key = other_label)) =>
              DrawnAsFolded(d[i].kids, Append(path, d[i].key))

\* C2 (amended): with a positive threshold, a level is folded only when two
\* or more of its siblings are below the threshold count, the double
\* (threshold_percent / 100.0) * level total, and no key of its parent path
\* contains other_label; the small siblings are then replaced by one childless
\* other_label entry holding their summed count and every other sibling is
\* kept unchanged.  Any other level is drawn unchanged.  A level where a
\* sibling that is not folded is itself named other_label is left out.
C2_FoldsTwoOrMoreSmallSiblings ==
    (sb_pc = "charted" /\ threshold_percent > 0) => DrawnAsFolded(hierarchy, <<>>)

\* A chart of three or more levels whose first level held two kept siblings
\* and two small ones, folded into the other_label entry; under a kept
\* sibling a single small child, drawn as it is; and at the third level an
\* other_label entry made of two or more small siblings.
C2_Witness ==
    /\ sb_pc = "charted"
    /\ threshold_percent > 0
    /\ n_levels >= 3
    /\ Cardinality(SmallItemSet(hierarchy)) >= 2
    /\ other_label \notin Keys(hierarchy)
    /\ <<other_label, SumOver(hierarchy, SmallItemSet(hierarchy))>> \in DrawnPairs(<<>>)
    /\ \E i \in (1..Len(hierarchy)) \ SmallItemSet(hierarchy) :
          /\ <<hierarchy[i].key, calculate_total_recursive(hierarchy[i])>> \in DrawnPairs(<<>>)
          /\ Cardinality(SmallItemSet(hierarchy[i].kids)) = 1
          /\ DrawnPairs(<<hierarchy[i].key>>) = Pairs(hierarchy[i].kids)
    /\ \E i \in 1..Len(segments) :
          /\ segments[i].level = 3
          /\ segments[i].key = other_label
          /\ segments[i].value >= 2
          /\ ~PathContainsLabel(ParentPath(segments[i]))

(***************************************************************************)
(* Properties of the colours, the labels and the argument checks           *)
(***************************************************************************)
\* The drawn segment with the given path.
SegmentAt(path) == segments[CHOOSE i \in 1..Len(segments) : segments[i].path = path]

\* The places in the segment list of the segment's siblings, itself included.
SiblingPlaces(seg) == {j \in 1..Len(segments) : ParentPath(segments[j]) = ParentPath(seg)}

\* The rank of segment i among its siblings, in drawing order.
SiblingRank(i) == Cardinality({j \in SiblingPlaces(segments[i]) : j <= i})

InheritsColor(seg) == seg.level > sb_args.color_inherit_level

\* C17: a segment at a level above color_inherit_level takes its colour from
\* its parent segment: in mode 'same' the colour of its ancestor at level
\* color_inherit_level, in mode 'variations' one of the shades generated
\* from its parent's colour; a segment at a level up to color_inherit_level
\* takes a distinct colour by its rank and nothing from its parent.
C17_ColorsInheritedAboveLevel ==
    sb_pc = "charted" =>
        \A i \in 1..Len(segments) :
            LET seg == segments[i]
            IN IF InheritsColor(seg)
               THEN IF sb_args.color_mode = "same"
                    THEN seg.color =
                            SegmentAt(SubSeq(seg.path, 1, sb_args.color_inherit_level)).color
                    ELSE seg.color \in
                            Range(generate_color_variations(
                                      SegmentAt(ParentPath(seg)).color,
                                      Cardinality(SiblingPlaces(seg))))
               ELSE seg.color =
                        generate_distinct_colors(Cardinality(SiblingPlaces(seg)))[SiblingRank(i)]

\* Mode 'same' with inheritance level 2 in a chart of four or more levels:
\* a fourth-level segment has the colour of its second-level ancestor, two
\* levels up, which is not the colour of its first-level ancestor.
C17_Witness ==
    /\ sb_pc = "charted"
    /\ sb_args.color_mode = "same"
    /\ sb_args.color_inherit_level = 2
    /\ \E i \in 1..Len(segments) :
          /\ segments[i].level = 4
          /\ segments[i].color = SegmentAt(SubSeq(segments[i].path, 1, 2)).color
          /\ segments[i].color # SegmentAt(SubSeq(segments[i].path, 1, 1)).color

\* C18: a segment's label is drawn if and only if its angular size
\* (end_angle - start_angle) is strictly greater than label_threshold
\* degrees, at every level; a segment exactly at the threshold has no label.
C18_LabelIffAboveThreshold ==
    sb_pc = "charted" =>
        \A i \in 1..Len(segments) :
            (segments[i].path \in Range(labels))
                <=> FloatLess(FloatFromInt(sb_args.label_threshold), AngleSize(segments[i]))

\* --label-threshold 90 and level-1 counts 7, 5, 5, 3: the third wedge runs
\* from 216.0 to 306.0 and has no label; the second, a quarter of the circle
\* as well, runs from 125.99999999999999 to 216.0, which is more than 90
\* degrees in doubles, and has one; so has a second-level segment.
C18_Witness ==
    /\ sb_pc = "charted"
    /\ sb_args.label_threshold = 90
    /\ \E i \in 1..Len(segments) :
          /\ AngleSize(segments[i]) = FloatFromInt(90)
          /\ segments[i].path \notin Range(labels)
    /\ \E i \in 1..Len(segments) :
          /\ segments[i].value * FullCircle = 90 * GrandTotal
          /\ FloatLess(FloatFromInt(90), AngleSize(segments[i]))
          /\ segments[i].path \in Range(labels)
    /\ \E i \in 1..Len(segments) :
          /\ segments[i].level = 2
          /\ segments[i].path \in Range(labels)

InvalidConfiguration ==
    \/ sb_args.threshold < 0 \/ sb_args.threshold > 100
    \/ sb_args.color_inherit_level < 1 \/ sb_args.color_inherit_level > n_levels

\* C20: with --threshold outside [0, 100], or --color-inherit-level below 1
\* or above the number of active levels, main exits with status 1 before
\* any input is read and before any chart is made.
C20_InvalidConfigurationRejected ==
    (sb_pc \notin {"idle", "start"} /\ InvalidConfiguration) =>
        /\ sb_pc = "exit"
        /\ sb_exit = <<1>>
        /\ hierarchy = <<>> /\ total_count = 0
        /\ segments = <<>> /\ labels = <<>>

\* An inheritance level within 1..5 that exceeds the active levels.
C20_Witness ==
    /\ sb_pc = "exit"
    /\ sb_exit = <<1>>
    /\ sb_args.threshold \in 0..100
    /\ sb_args.color_inherit_level = 2
    /\ n_levels = 1

\* The mappings aggregate_small_slices is given while the chart is laid
\* out: the hierarchy and the child mappings of its entries.
RECURSIVE SubMappings(_)
SubMappings(d) ==
    {d} \cup UNION {SubMappings(d[i].kids) : i \in {j \in 1..Len(d) : ~d[j].leaf}}

LevelMappings == SubMappings(hierarchy)

\* C22: aggregate_small_slices conserves the level total: the counts of
\* the returned mapping sum to the counts of the input mapping, also when
\* a key of the input equals other_label.
C22_AggregationConservesTotal ==
    sb_pc = "charted" =>
        \A d \in LevelMappings :
            SumTotals(aggregate_small_slices(d, threshold_percent, SumTotals(d))) = SumTotals(d)

\* The angular range a segment's siblings have to fill: the parent's, or
\* the full circle at level 1.
ParentStart(seg) ==
    IF seg.level = 1 THEN FloatZero ELSE SegmentAt(ParentPath(seg)).start_angle

ParentEnd(seg) ==
    IF seg.level = 1 THEN FloatFullCircle ELSE SegmentAt(ParentPath(seg)).end_angle

\* The places of the siblings drawn before, and after, segment i.
EarlierSiblings(i) == {j \in SiblingPlaces(segments[i]) : j < i}

LaterSiblings(i) == {j \in SiblingPlaces(segments[i]) : j > i}

\* The sibling drawn just before segment i.
PreviousSibling(i) ==
    segments[CHOOSE j \in EarlierSiblings(i) : \A k \in EarlierSiblings(i) : k <= j]

\* C23 (as stated): the children of a segment tile its angular range, and
\* the level-1 segments tile 0 to 360 degrees: the first sibling starts
\* where the parent starts, every other sibling starts where the one before
\* it ends, the last ends where the parent ends, no segment is empty, and
\* siblings follow one another in non-increasing order of count.
C23_SiblingsTileParentExactly ==
    sb_pc = "charted" =>
        \A i \in 1..Len(segments) :
            LET seg == segments[i]
            IN  /\ FloatLess(seg.start_angle, seg.end_angle)
                /\ IF EarlierSiblings(i) = {}
                   THEN seg.start_angle = ParentStart(seg)
                   ELSE /\ seg.start_angle = PreviousSibling(i).end_angle
                        /\ PreviousSibling(i).value >= seg.value
                /\ LaterSiblings(i) = {} => seg.end_angle = ParentEnd(seg)

\* C23 (amended): the first sibling starts where the parent starts, every
\* other sibling starts where the one before it ends, no segment is empty,
\* siblings follow one another in non-increasing order of count, and the
\* last sibling ends at the parent's end up to the rounding of the double
\* arithmetic (less than a millionth of a degree from it).
C23_SiblingsTileParent ==
    sb_pc = "charted" =>
        \A i \in 1..Len(segments) :
            LET seg == segments[i]
            IN  /\ FloatLess(seg.start_angle, seg.end_angle)
                /\ IF EarlierSiblings(i) = {}
                   THEN seg.start_angle = ParentStart(seg)
                   ELSE /\ seg.start_angle = PreviousSibling(i).end_angle
                        /\ PreviousSibling(i).value >= seg.value
                /\ LaterSiblings(i) = {} => Near(seg.end_angle, ParentEnd(seg))

\* Three level-1 wedges, loaded in another order than they are drawn, whose
\* last one ends beside 360 degrees but not at it, and a second-level
\* segment that fills a parent which does not start at 0.
C23_Witness ==
    /\ sb_pc = "charted"
    /\ threshold_percent = 0
    /\ \E i \in 1..Len(segments) : \E j \in 1..Len(segments) :
          /\ segments[i].level = 1
          /\ EarlierSiblings(i) = {}
          /\ i < j
          /\ LaterSiblings(j) = {}
          /\ segments[i].value > segments[j].value
          /\ segments[i].start_angle = FloatZero
          /\ segments[j].end_angle # FloatFullCircle
          /\ Near(segments[j].end_angle, FloatFullCircle)
          /\ IndexOf(hierarchy, segments[i].key) > 1
    /\ \E i \in 1..Len(segments) :
          /\ segments[i].level = 2
          /\ ParentStart(segments[i]) # FloatZero
          /\ segments[i].start_angle = ParentStart(segments[i])
          /\ segments[i].end_angle = ParentEnd(segments[i])

\* The rows of the CSV file with a value in the sample-ID column and in
\* every active level column.
CompleteRows ==
    {i \in 1..Len(sb_df.rows) :
        /\ sb_df.rows[i].sid # MissingValue
        /\ sb_df.rows[i].l1 # MissingValue
        /\ n_levels = 2 => sb_df.rows[i].l2 # MissingValue}

\* The leaf path a row counts under.
LeafPath(row) ==
    IF n_levels = 1 THEN <<Strip(row.l1)>> ELSE <<Strip(row.l1), Strip(row.l2)>>

MaxFiles == 3

Col(name) == [name |-> name, sfx |-> ""]

Suffixed(name, file_name) == [name |-> name, sfx |-> file_name]

SampleIdCol == Col("Sample ID")

ColNames(t) == {t.cols[i] : i \in 1..Len(t.cols)}

ColIndex(t, c) == CHOOSE i \in 1..Len(t.cols) : t.cols[i] = c

Cell(t, r, c) == t.rows[r][ColIndex(t, c)]

\* The fields a UUID detector accepts: 36 characters with four dashes.
UuidLike == {"u0", "u1", "u2"}

\* pandas orders the keys of an outer join; a missing key sorts last.
KeyRank(k) ==
    CASE k = "s1" -> 1
      [] k = "s2" -> 2
      [] OTHER    -> 3

\* pandas names a column with an empty header field after its position.
UnnamedCol(i) ==
    CASE i = 1 -> "Unnamed: 0"
      [] i = 2 -> "Unnamed: 1"
      [] OTHER -> "Unnamed: 2"

\* pd.read_csv(path, sep='\t', header=h, dtype=str): line h (0-based) is the
\* header, the lines after it are the data, the lines before it are dropped.
read_csv(lines, h) ==
    LET header == lines[h + 1]
    IN  [cols |-> [i \in 1..Len(header) |->
                      Col(IF header[i] = "" THEN UnnamedCol(i) ELSE header[i])],
         rows |-> SubSeq(lines, h + 2, Len(lines))]

\* line.strip().split('\t'): strip() removes the leading and trailing
\* whitespace of the whole line, tabs included, so the empty fields at both
\* ends disappear; a line of empty fields only splits to one empty field.
RECURSIVE DropLeadingEmpty(_)
DropLeadingEmpty(line) ==
    IF line = <<>> \/ Head(line) # "" THEN line ELSE DropLeadingEmpty(Tail(line))

RECURSIVE DropTrailingEmpty(_)
DropTrailingEmpty(line) ==
    IF line = <<>> \/ line[Len(line)] # "" THEN line
    ELSE DropTrailingEmpty(SubSeq(line, 1, Len(line) - 1))

StripSplit(line) ==
    LET kept == DropTrailingEmpty(DropLeadingEmpty(line))
    IN  IF kept = <<>> THEN <<"">> ELSE kept

TsvVariants == <<"Sample ID", "SampleID", "sample_id", "sampleid">>

BoldVariants == <<"Sample ID", "SampleID", "sample_id", "sampleid", "Process ID", "ProcessID">>

\* standardize_sample_id_column: the first listed spelling found in the
\* columns is renamed to 'Sample ID'.
standardize_sample_id_column(df, variants) ==
    LET found == {i \in 1..Len(variants) : Col(variants[i]) \in ColNames(df)}
    IN  IF found = {} THEN df
        ELSE LET first == variants[CHOOSE i \in found : \A j \in found : i <= j]
             IN  [df EXCEPT !.cols[ColIndex(df, Col(first))] = SampleIdCol]

RECURSIVE KeepFirstByKey(_, _, _)
KeepFirstByKey(rows, k, seen) ==
    IF rows = <<>> THEN <<>>
    ELSE IF Head(rows)[k] \in seen
         THEN KeepFirstByKey(Tail(rows), k, seen)
         ELSE <<Head(rows)>> \o KeepFirstByKey(Tail(rows), k, seen \cup {Head(rows)[k]})

\* A frame left as read, repeated keys included.
KeepsRepeatedKeys(df) == df

\* df.drop_duplicates(subset=['Sample ID'])
drop_duplicates(df) ==
    [df EXCEPT !.rows = KeepFirstByKey(df.rows, ColIndex(df, SampleIdCol), {})]

\* A row without the column at position k.
WithoutField(row, k) == SubSeq(row, 1, k - 1) \o SubSeq(row, k + 1, Len(row))

Nulls(n) == [i \in 1..n |-> ""]

RowsWithKey(rows, k, key) == SelectSeq(rows, LAMBDA r : r[k] = key)

RECURSIVE SortKeys(_)
SortKeys(keys) ==
    IF keys = {} THEN <<>>
    ELSE LET least == CHOOSE x \in keys : \A y \in keys : KeyRank(x) <= KeyRank(y)
         IN  <<least>> \o SortKeys(keys \ {least})

RECURSIVE Flatten(_)
Flatten(ss) == IF ss = <<>> THEN <<>> ELSE Head(ss) \o Flatten(Tail(ss))

\* pd.merge(left, right, on='Sample ID', how='outer', suffixes=('', sfx)):
\* the left columns keep their labels, a right column whose label the left
\* table also has gets the suffix, and every key of either side is kept.
pd_merge(left, right, file_name) ==
    LET kl == ColIndex(left, SampleIdCol)
        kr == ColIndex(right, SampleIdCol)
        rcols == WithoutField(right.cols, kr)
        renamed == [i \in 1..Len(rcols) |->
                       IF rcols[i] \in ColNames(left)
                       THEN Suffixed(rcols[i].name, file_name)
                       ELSE rcols[i]]
        keys == SortKeys({left.rows[i][kl] : i \in 1..Len(left.rows)}
                         \cup {right.rows[i][kr] : i \in 1..Len(right.rows)})
        Joined(key) ==
            LET ls == RowsWithKey(left.rows, kl, key)
                rs == RowsWithKey(right.rows, kr, key)
                lrows == IF ls = <<>>
                         THEN <<[Nulls(Len(left.cols)) EXCEPT ![kl] = key]>>
                         ELSE ls
                rparts == IF rs = <<>>
                          THEN <<Nulls(Len(rcols))>>
                          ELSE [i \in 1..Len(rs) |-> WithoutField(rs[i], kr)]
            IN  Flatten([i \in 1..Len(lrows) |->
                            [j \in 1..Len(rparts) |-> lrows[i] \o rparts[j]]])
    IN  [cols |-> left.cols \o renamed,
         rows |-> Flatten([i \in 1..Len(keys) |-> Joined(keys[i])])]

DropCols(t, drop) ==
    LET keep == {i \in 1..Len(t.cols) : t.cols[i] \notin drop}
        Pick(seq) == SelectSeq([i \in 1..Len(seq) |-> <<i, seq[i]>>],
                               LAMBDA p : p[1] \in keep)
        Unpair(ps) == [i \in 1..Len(ps) |-> ps[i][2]]
    IN  [cols |-> Unpair(Pick(t.cols)),
         rows |-> [r \in 1..Len(t.rows) |-> Unpair(Pick(t.rows[r]))]]

\* merged_df[ordered_columns]
SelectCols(t, ordered) ==
    [cols |-> ordered,
     rows |-> [r \in 1..Len(t.rows) |->
                  [i \in 1..Len(ordered) |-> t.rows[r][ColIndex(t, ordered[i])]]]]

(***************************************************************************)
(* TSV mergers: the input files of the model                               *)
(***************************************************************************)
FileLines(uuid_line, header, rows) ==
    (IF uuid_line = <<>> THEN <<>> ELSE <<uuid_line>>) \o <<header>> \o rows

\* Files that differ in layout: with or without a UUID first row (whose
\* first or last field may be empty) and with the key under several
\* spellings, or without a key.
LayoutFiles ==
    { FileLines(u, <<k, "Notes">>, << <<"s1", "v">> >>) :
        u \in {<<>>, <<"", "u1">>, <<"u0", "u1">>, <<"u0", "">>},
        k \in {"Sample ID", "SampleID"} }
    \cup { FileLines(<<>>, <<"Specimen", "Notes">>, << <<"s1", "v">> >>),
           FileLines(<<"", "u2">>, <<"Sample ID", "Genus">>, << <<"s2", "w">> >>) }

\* Files that differ in content: missing cells, a repeated Sample ID, a
\* missing Sample ID, another column, the key after the other columns, a
\* column whose name begins with the name of another and a Source_File
\* column.
ContentFiles ==
    { FileLines(<<>>, <<"Sample ID", "Notes">>, << <<"s1", "">>, <<"s2", "w">> >>),
      FileLines(<<>>, <<"Sample ID", "Notes">>, << <<"s1", "">>, <<"s1", "w">> >>),
      FileLines(<<>>, <<"Sample ID", "Notes">>, << <<"", "v">> >>),
      FileLines(<<>>, <<"Sample ID", "Genus">>, << <<"s2", "v">> >>),
      FileLines(<<>>, <<"Notes", "Process ID", "Sample ID">>, << <<"v", "p1", "s1">> >>),
      FileLines(<<>>, <<"Sample ID", "Collection Date", "Collection Date Accuracy">>,
                << <<"s1", "d", "a">> >>),
      FileLines(<<>>, <<"Sample ID", "Source_File">>, << <<"s1", "f">> >>) }

FileContents == LayoutFiles \cup ContentFiles

(***************************************************************************)
(* bold_tsv_merger.py                                                      *)
(***************************************************************************)
McfName == "merged_custom_fields.tsv"

\* The modelled file names, in the order get_file_priority sorts them.
TsvNames == <<"voucher.tsv", "taxonomy.tsv", "merged_custom_fields.tsv", "lab.tsv">>

get_file_priority(name) == CHOOSE i \in 1..Len(TsvNames) : TsvNames[i] = name

\* read_tsv_file: the second row is the header of merged_custom_fields.tsv,
\* the first row that of any other file.
read_tsv_file(file) ==
    IF file.name = McfName
    THEN [df       |-> read_csv(file.lines, 1),
          uuid_row |-> <<StripSplit(file.lines[1])>>,
          header   |-> 1]
    ELSE [df |-> read_csv(file.lines, 0), uuid_row |-> <<>>, header |-> 0]

\* One iteration of the loop over tsv_files_sorted.
TsvProcessFile ==
    /\ mg_pc = "reading"
    /\ variant = "tsv"
    /\ Len(folder) < MaxFiles
    /\ \E i \in 1..Len(TsvNames), lines \in FileContents :
          LET file == [name |-> TsvNames[i], lines |-> lines]
              read == read_tsv_file(file)
              df   == standardize_sample_id_column(read.df, TsvVariants)
              deduped == drop_duplicates(df)
          IN  /\ folder # <<>> => get_file_priority(folder[Len(folder)].name) < i
              /\ folder' = Append(folder, file)
              /\ header_rows' = Append(header_rows, read.header + 1)
              /\ uuid_row' = IF read.uuid_row # <<>> THEN read.uuid_row ELSE uuid_row
              /\ IF SampleIdCol \notin ColNames(df)
                 THEN UNCHANGED <<merged_df, processed_files>>
                 ELSE /\ merged_df' = IF merged_df = <<>>
                                      THEN <<deduped>>
                                      ELSE <<pd_merge(merged_df[1], deduped, file.name)>>
                      /\ processed_files' = Append(processed_files, file.name)
    /\ UNCHANGED <<mg_pc, variant, file_data, uuid_mappings, output, conflict_warnings>>
    /\ UNCHANGED <<sbVars, txVars, mpVars>>

SourceFileColumns ==
    {Col("Source_File")} \cup
    {Suffixed("Source_File", f) : f \in {"lab.tsv", "merged_custom_fields.tsv",
        "specimen_details.tsv", "tags.tsv", "taxonomy.tsv", "voucher.tsv"}}

DuplicateFields == <<"Collection Date", "Life Stage", "Extra Info", "Notes", "Field ID">>

\* The modelled column names of which another is a proper prefix.
ProperPrefixes == {<<"Collection Date Accuracy", "Collection Date">>}

\* col.startswith(base_field)
StartsWith(col, base_field) ==
    col.name = base_field \/ <<col.name, base_field>> \in ProperPrefixes

\* One base field of the duplicate_fields loop.
ResolveDuplicateField(t, base_field) ==
    LET available_versions == SelectSeq(t.cols, LAMBDA c : StartsWith(c, base_field))
        not_lab == SelectSeq(available_versions, LAMBDA c : c.sfx # "lab.tsv")
        preferred_col == IF not_lab # <<>> THEN not_lab[1] ELSE available_versions[1]
        dropped == DropCols(t, Range(available_versions) \ {preferred_col})
    IN  IF Len(available_versions) > 1
        THEN [dropped EXCEPT !.cols[ColIndex(dropped, preferred_col)] = Col(base_field)]
        ELSE t

RECURSIVE ResolveDuplicateFields(_, _)
ResolveDuplicateFields(t, fields) ==
    IF fields = <<>> THEN t
    ELSE ResolveDuplicateFields(ResolveDuplicateField(t, Head(fields)), Tail(fields))

FileOrderKeys == <<"voucher.tsv", "taxonomy.tsv", "specimen_details.tsv",
                   "collection_data.tsv", "merged_custom_fields.tsv", "lab.tsv", "tags.tsv">>

\* The columns left in the order the joins produced them.
KeepsMergedOrder(t) == t.cols

\* The columns that match no file are left out.
OmitsRemainingColumns(t) ==
    LET fixed == <<SampleIdCol>> \o
                 (IF Col("Process ID") \in ColNames(t) THEN <<Col("Process ID")>> ELSE <<>>)
        OfFile(f) == SelectSeq(t.cols, LAMBDA c : c \notin Range(fixed) /\ c.sfx = f)
    IN  fixed \o Flatten([i \in 1..Len(FileOrderKeys) |-> OfFile(FileOrderKeys[i])])

\* The column order of the written table.
OrderedColumns(t) ==
    LET fixed == <<SampleIdCol>> \o
                 (IF Col("Process ID") \in ColNames(t) THEN <<Col("Process ID")>> ELSE <<>>)
        OfFile(f) == SelectSeq(t.cols, LAMBDA c : c \notin Range(fixed) /\ c.sfx = f)
        by_file == Flatten([i \in 1..Len(FileOrderKeys) |-> OfFile(FileOrderKeys[i])])
        remaining == SelectSeq(t.cols, LAMBDA c : c \notin Range(fixed \o by_file))
    IN  fixed \o by_file \o remaining

\* Lines 161-213: Source_File columns, duplicate fields and copies of the
\* key removed.
TsvCleaned(t) ==
    LET no_source == DropCols(t, SourceFileColumns)
        resolved  == ResolveDuplicateFields(no_source, DuplicateFields)
    IN  DropCols(resolved, {c \in ColNames(resolved) : c.name = "Sample ID" /\ c.sfx # ""})

\* Lines 161-257: clean-up, then the column order.
TsvCleanUp(t) == SelectCols(TsvCleaned(t), OrderedColumns(TsvCleaned(t)))

\* uuid_dict.get: the UUID zipped with the last header field of that name.
ZippedUuid(uuid_line, header_line, name) ==
    LET n == IF Len(uuid_line) < Len(header_line) THEN Len(uuid_line) ELSE Len(header_line)
        at == {i \in 1..n : header_line[i] = name /\ name # ""}
    IN  IF at = {} THEN ""
        ELSE uuid_line[CHOOSE i \in at : \A j \in at : j <= i]

\* Lines 266-299: the UUID row aligned with the written columns.
TsvAlignedUuidRow(t) ==
    LET mcf == folder[CHOOSE i \in 1..Len(folder) : folder[i].name = McfName]
        uuid_line   == StripSplit(mcf.lines[1])
        header_line == StripSplit(mcf.lines[2])
    IN  [i \in 1..Len(t.cols) |->
            IF t.cols[i].sfx \in {"", McfName}
            THEN ZippedUuid(uuid_line, header_line, t.cols[i].name)
            ELSE ""]

TsvFinish ==
    /\ mg_pc = "reading"
    /\ variant = "tsv"
    /\ IF merged_df = <<>> \/ merged_df[1].rows = <<>>
       THEN /\ mg_pc' = "failed"
            /\ UNCHANGED <<merged_df, output>>
       ELSE LET final == TsvCleanUp(merged_df[1])
            IN  /\ merged_df' = <<final>>
                /\ output' = <<[uuid |-> IF uuid_row = <<>> THEN <<>>
                                         ELSE <<TsvAlignedUuidRow(final)>>,
                                cols |-> final.cols,
                                rows |-> final.rows]>>
                /\ mg_pc' = "written"
    /\ UNCHANGED <<variant, folder, header_rows, processed_files, uuid_row, file_data,
                   uuid_mappings, conflict_warnings>>
    /\ UNCHANGED <<sbVars, txVars, mpVars>>

(***************************************************************************)
(* bold_merged_tsv_merger.py                                               *)
(***************************************************************************)
\* folder.glob yields the files in no particular order; the k-th file
\* handled is named after its position.
BoldName(k) ==
    CASE k = 1 -> "f1.tsv"
      [] k = 2 -> "f2.tsv"
      [] k = 3 -> "f3.tsv"
      [] OTHER -> "f4.tsv"

\* read_tsv_with_uuid_row: always the second row as header; the first row
\* is kept as UUID row when one of its fields looks like a UUID.
read_tsv_with_uuid_row(file) ==
    LET first_line_parts  == StripSplit(file.lines[1])
        second_line_parts == StripSplit(file.lines[2])
        uuid_count == Cardinality({i \in 1..Len(first_line_parts) :
                                      first_line_parts[i] \in UuidLike})
    IN  [df       |-> read_csv(file.lines, 1),
         uuid_row |-> IF uuid_count > 0 THEN <<first_line_parts>> ELSE <<>>,
         headers  |-> second_line_parts]

\* Lines 147-171: the header check with its fallback to the first row.
\* kept = FALSE is `continue`.
BoldHeaderCheck(file) ==
    LET read == read_tsv_with_uuid_row(file)
        df_fallback == standardize_sample_id_column(read_csv(file.lines, 0), BoldVariants)
    IN  IF SampleIdCol \in ColNames(read.df)
        THEN [kept     |-> TRUE,
              df       |-> standardize_sample_id_column(read.df, BoldVariants),
              uuid_row |-> read.uuid_row,
              headers  |-> read.headers,
              header   |-> 1]
        ELSE IF SampleIdCol \in ColNames(df_fallback)
             THEN [kept     |-> TRUE,
                   df       |-> df_fallback,
                   uuid_row |-> <<>>,
                   headers  |-> [i \in 1..Len(df_fallback.cols) |-> df_fallback.cols[i].name],
                   header   |-> 0]
             ELSE [kept |-> FALSE, df |-> df_fallback, uuid_row |-> <<>>,
                   headers |-> <<>>, header |-> 0]

\* Lines 179-186: header -> UUID pairs, where both are non-empty.
FileUuidMapping(headers, uuids) ==
    SelectSeq([i \in 1..Len(headers) |-> <<headers[i], uuids[i]>>],
              LAMBDA p : p[1] # "" /\ p[2] # "")

\* One iteration of the first pass over tsv_files.
BoldReadFile ==
    /\ mg_pc = "reading"
    /\ variant = "bold"
    /\ Len(folder) < MaxFiles
    /\ \E lines \in FileContents :
          LET file == [name |-> BoldName(Len(folder) + 1), lines |-> lines]
              checked == BoldHeaderCheck(file)
          IN  /\ folder' = Append(folder, file)
              /\ header_rows' = Append(header_rows, checked.header + 1)
              /\ IF ~checked.kept
                 THEN UNCHANGED <<file_data, uuid_mappings, processed_files>>
                 ELSE /\ file_data' = Append(file_data,
                             [name |-> file.name, df |-> drop_duplicates(checked.df)])
                      /\ processed_files' = Append(processed_files, file.name)
                      /\ uuid_mappings' =
                             IF /\ checked.uuid_row # <<>>
                                /\ Len(checked.uuid_row[1]) = Len(checked.headers)
                             THEN Append(uuid_mappings,
                                         [name |-> file.name,
                                          mapping |-> FileUuidMapping(checked.headers,
                                                                      checked.uuid_row[1])])
                             ELSE uuid_mappings
    /\ UNCHANGED <<mg_pc, variant, merged_df, uuid_row, output, conflict_warnings>>
    /\ UNCHANGED <<sbVars, txVars, mpVars>>

\* mapping.get(name): the value of the last pair with that header.
MappingGet(mapping, name) ==
    LET at == {i \in 1..Len(mapping) : mapping[i][1] = name}
    IN  IF at = {} THEN "" ELSE mapping[CHOOSE i \in at : \A j \in at : j <= i][2]

\* merge_column_mappings: the first file that maps a column decides.
RECURSIVE merge_column_mappings(_, _)
merge_column_mappings(mappings, name) ==
    IF mappings = <<>> THEN ""
    ELSE IF MappingGet(Head(mappings).mapping, name) # ""
         THEN MappingGet(Head(mappings).mapping, name)
         ELSE merge_column_mappings(Tail(mappings), name)

UnifiedMappingEmpty(mappings) == \A i \in 1..Len(mappings) : mappings[i].mapping = <<>>

\* Lines 203-213: the sequential outer joins of the second pass.
RECURSIVE MergeAll(_, _)
MergeAll(acc, files) ==
    IF files = <<>> THEN acc
    ELSE MergeAll(pd_merge(acc, Head(files).df, Head(files).name), Tail(files))

\* The base column left as joined, not filled from its copy.
KeepsBaseCells(t, base_col, dup_col) == t

\* The copy's value is taken wherever the copy has one.
PrefersLaterValue(t, base_col, dup_col) ==
    LET b == ColIndex(t, base_col)
        d == ColIndex(t, dup_col)
    IN  [t EXCEPT !.rows = [r \in 1..Len(t.rows) |->
            [t.rows[r] EXCEPT ![b] = IF t.rows[r][d] # "" THEN t.rows[r][d] ELSE t.rows[r][b]]]]

\* base_series.where(base_series != '', dup_series)
CombineInto(t, base_col, dup_col) ==
    LET b == ColIndex(t, base_col)
        d == ColIndex(t, dup_col)
    IN  [t EXCEPT !.rows = [r \in 1..Len(t.rows) |->
            [t.rows[r] EXCEPT ![b] = IF t.rows[r][b] # "" THEN t.rows[r][b] ELSE t.rows[r][d]]]]

\* Lines 215-242: every suffixed copy is folded into its base column.
RECURSIVE ResolveDuplicateColumns(_, _)
ResolveDuplicateColumns(t, duplicate_cols) ==
    IF duplicate_cols = <<>> THEN t
    ELSE LET dup_col  == Head(duplicate_cols)
             base_col == Col(dup_col.name)
         IN  ResolveDuplicateColumns(
                 IF base_col \in ColNames(t)
                 THEN DropCols(CombineInto(t, base_col, dup_col), {dup_col})
                 ELSE t,
                 Tail(duplicate_cols))

\* conflicts.sum(): the rows in which both columns hold different
\* non-empty values.
Conflicts(t, base_col, dup_col) ==
    LET b == ColIndex(t, base_col)
        d == ColIndex(t, dup_col)
    IN  Cardinality({r \in 1..Len(t.rows) :
            t.rows[r][b] # "" /\ t.rows[r][d] # "" /\ t.rows[r][b] # t.rows[r][d]})

\* Lines 232-236: the warnings logged while the copies are folded.
RECURSIVE ConflictWarnings(_, _)
ConflictWarnings(t, duplicate_cols) ==
    IF duplicate_cols = <<>> THEN <<>>
    ELSE LET dup_col  == Head(duplicate_cols)
             base_col == Col(dup_col.name)
         IN  IF base_col \in ColNames(t)
             THEN (IF Conflicts(t, base_col, dup_col) > 0
                   THEN <<[column |-> dup_col.name,
                           count  |-> Conflicts(t, base_col, dup_col)]>>
                   ELSE <<>>)
                  \o ConflictWarnings(DropCols(CombineInto(t, base_col, dup_col), {dup_col}),
                                      Tail(duplicate_cols))
             ELSE ConflictWarnings(t, Tail(duplicate_cols))

\* Lines 244-249: Sample ID moved to the front.
SampleIdFirst(t) ==
    IF SampleIdCol \in ColNames(t)
    THEN SelectCols(t, <<SampleIdCol>> \o SelectSeq(t.cols, LAMBDA c : c # SampleIdCol))
    ELSE t

BoldMerged ==
    LET joined == MergeAll(file_data[1].df, Tail(file_data))
    IN  SampleIdFirst(ResolveDuplicateColumns(joined,
                          SelectSeq(joined.cols, LAMBDA c : c.sfx # "")))

BoldConflictWarnings ==
    LET joined == MergeAll(file_data[1].df, Tail(file_data))
    IN  ConflictWarnings(joined, SelectSeq(joined.cols, LAMBDA c : c.sfx # ""))

\* Lines 258-264: the UUID row of the written columns.
BoldUuidRow(t) ==
    [i \in 1..Len(t.cols) |->
        IF t.cols[i].sfx = "" THEN merge_column_mappings(uuid_mappings, t.cols[i].name)
        ELSE ""]

BoldFinish ==
    /\ mg_pc = "reading"
    /\ variant = "bold"
    /\ IF file_data = <<>>
       THEN /\ mg_pc' = "failed"
            /\ UNCHANGED <<merged_df, output, conflict_warnings>>
       ELSE LET final == BoldMerged
            IN  /\ merged_df' = <<final>>
                /\ conflict_warnings' = BoldConflictWarnings
                /\ output' = <<[uuid |-> IF UnifiedMappingEmpty(uuid_mappings) THEN <<>>
                                         ELSE <<BoldUuidRow(final)>>,
                                cols |-> final.cols,
                                rows |-> final.rows]>>
                /\ mg_pc' = "written"
    /\ UNCHANGED <<variant, folder, header_rows, processed_files, uuid_row, file_data,
                   uuid_mappings>>
    /\ UNCHANGED <<sbVars, txVars, mpVars>>

MergeInit ==
    /\ mg_pc = "reading"
    /\ variant \in {"tsv", "bold"}
    /\ folder = <<>>
    /\ header_rows = <<>>
    /\ processed_files = <<>>
    /\ merged_df = <<>>
    /\ uuid_row = <<>>
    /\ file_data = <<>>
    /\ uuid_mappings = <<>>
    /\ output = <<>>
    /\ conflict_warnings = <<>>

MergeIdle ==
    /\ mg_pc = "idle"
    /\ variant = "none"
    /\ folder = <<>>
    /\ header_rows = <<>>
    /\ processed_files = <<>>
    /\ merged_df = <<>>
    /\ uuid_row = <<>>
    /\ file_data = <<>>
    /\ uuid_mappings = <<>>
    /\ output = <<>>
    /\ conflict_warnings = <<>>

MergeNext == TsvProcessFile \/ TsvFinish \/ BoldReadFile \/ BoldFinish

(***************************************************************************)
(* TSV mergers: what the input files hold, read off their lines            *)
(***************************************************************************)
HasUuidRow(lines) == \E i \in 1..Len(lines[1]) : lines[1][i] \in UuidLike

TrueHeaderRow(lines) == IF HasUuidRow(lines) THEN 2 ELSE 1

TrueHeader(lines) == lines[TrueHeaderRow(lines)]

TrueRows(lines) == SubSeq(lines, TrueHeaderRow(lines) + 1, Len(lines))

KeySpellings == {"Sample ID", "SampleID", "sample_id", "sampleid"}

HasKey(lines) == \E i \in 1..Len(TrueHeader(lines)) : TrueHeader(lines)[i] \in KeySpellings

KeyIndex(lines) ==
    CHOOSE i \in 1..Len(TrueHeader(lines)) : TrueHeader(lines)[i] \in KeySpellings

\* The handled files that took part in the merge.
MergedFiles == {i \in 1..Len(folder) : folder[i].name \in Range(processed_files)}

SampleIdsOf(lines) ==
    {TrueRows(lines)[r][KeyIndex(lines)] : r \in 1..Len(TrueRows(lines))}

AllSampleIds == UNION {SampleIdsOf(folder[i].lines) : i \in MergedFiles}

OutputKey(r) == output[1].rows[r][ColIndex(output[1], SampleIdCol)]

OutputRowsOf(id) == {r \in 1..Len(output[1].rows) : OutputKey(r) = id}

\* C3: the written table has exactly one row for every Sample ID that occurs
\* in a merged file, and no row for any other Sample ID.
C3_OneRowPerSampleId ==
    mg_pc = "written" =>
        /\ \A id \in AllSampleIds : Cardinality(OutputRowsOf(id)) = 1
        /\ \A r \in 1..Len(output[1].rows) : OutputKey(r) \in AllSampleIds

\* Three files merged, with a Sample ID shared between files, a Sample ID of
\* one file only, and a Sample ID repeated within a file.
C3_Witness ==
    /\ mg_pc = "written"
    /\ Cardinality(MergedFiles) = 3
    /\ \E i, j \in MergedFiles :
          /\ i # j
          /\ SampleIdsOf(folder[i].lines) \cap SampleIdsOf(folder[j].lines) # {}
          /\ SampleIdsOf(folder[i].lines) \ SampleIdsOf(folder[j].lines) # {}
    /\ \E i \in MergedFiles :
          Cardinality(SampleIdsOf(folder[i].lines)) < Len(TrueRows(folder[i].lines))
    /\ \A id \in AllSampleIds : Cardinality(OutputRowsOf(id)) = 1

\* The non-key column names of a file.
FieldNames(lines) ==
    {TrueHeader(lines)[i] : i \in 1..Len(TrueHeader(lines))} \ KeySpellings

\* The column names that occur in more than one merged file.
SharedNames ==
    {n \in UNION {FieldNames(folder[i].lines) : i \in MergedFiles} :
        Cardinality({i \in MergedFiles : n \in FieldNames(folder[i].lines)}) > 1}

NameIndex(lines, n) ==
    CHOOSE i \in 1..Len(TrueHeader(lines)) : TrueHeader(lines)[i] = n

\* The values file i holds for column n in its rows of Sample ID id.
HeldValues(i, id, n) ==
    LET lines == folder[i].lines
    IN  IF n \notin FieldNames(lines) THEN {}
        ELSE {TrueRows(lines)[r][NameIndex(lines, n)] :
                 r \in {q \in 1..Len(TrueRows(lines)) :
                           TrueRows(lines)[q][KeyIndex(lines)] = id}}

\* The value file i holds for column n in its first row of Sample ID id.
FirstHeld(i, id, n) ==
    LET lines == folder[i].lines
        at == {q \in 1..Len(TrueRows(lines)) : TrueRows(lines)[q][KeyIndex(lines)] = id}
    IN  IF n \notin FieldNames(lines) \/ at = {} THEN ""
        ELSE TrueRows(lines)[CHOOSE q \in at : \A q2 \in at : q <= q2][NameIndex(lines, n)]

OutputColumnsNamed(n) == {i \in 1..Len(output[1].cols) : output[1].cols[i].name = n}

OutputCellsFilled(id, n) ==
    \A r \in OutputRowsOf(id) : \A i \in OutputColumnsNamed(n) : output[1].rows[r][i] # ""

\* C4 as stated: a column name that occurs in more than one merged file gives
\* a single output column, whose cell for a Sample ID is non-empty whenever
\* some merged file holds a non-null value for that Sample ID and column.
C4_SharedColumnPrefersNonNull ==
    mg_pc = "written" =>
        \A n \in SharedNames :
            /\ Cardinality(OutputColumnsNamed(n)) = 1
            /\ \A id \in AllSampleIds :
                  (\E i \in MergedFiles : HeldValues(i, id, n) \ {""} # {})
                      => OutputCellsFilled(id, n)

\* The first merged file that has column n.
FirstFileWith(n) ==
    CHOOSE i \in MergedFiles :
        /\ n \in FieldNames(folder[i].lines)
        /\ \A j \in MergedFiles : n \in FieldNames(folder[j].lines) => i <= j

\* Column name n merely begins with one of the five duplicate_fields names.
BeginsWithField(n) ==
    \E f \in Range(DuplicateFields) : <<n, f>> \in ProperPrefixes

\* Some merged file has a column whose name merely begins with field f.
HasLookalike(f) ==
    \E i \in MergedFiles : \E n \in FieldNames(folder[i].lines) : <<n, f>> \in ProperPrefixes

\* C4 (amended): bold_merged_tsv_merger gives a single column, filled from
\* the first row each merged file has for the Sample ID; bold_tsv_merger
\* reduces only the five listed fields to a single column, which holds the
\* values of the first merged file that has it, writes no column for the
\* shared name Source_File, and keeps one column per file for any other
\* shared name; column names that merely begin with one of the five names
\* are left to C26.
C4_SharedColumnPerVariant ==
    mg_pc = "written" =>
        \A n \in SharedNames :
            /\ variant = "bold" =>
                  /\ Cardinality(OutputColumnsNamed(n)) = 1
                  /\ \A id \in AllSampleIds :
                        (\E i \in MergedFiles : FirstHeld(i, id, n) # "")
                            => OutputCellsFilled(id, n)
            /\ (variant = "tsv" /\ n \in Range(DuplicateFields) /\ ~HasLookalike(n)) =>
                  /\ Cardinality(OutputColumnsNamed(n)) = 1
                  /\ \A id \in AllSampleIds : \A r \in OutputRowsOf(id) :
                        \A i \in OutputColumnsNamed(n) :
                            output[1].rows[r][i] = FirstHeld(FirstFileWith(n), id, n)
            /\ (variant = "tsv" /\ n = "Source_File") => OutputColumnsNamed(n) = {}
            /\ (/\ variant = "tsv"
                /\ n \notin Range(DuplicateFields) \cup {"Source_File"}
                /\ ~BeginsWithField(n)) =>
                  Cardinality(OutputColumnsNamed(n)) =
                      Cardinality({i \in MergedFiles : n \in FieldNames(folder[i].lines)})

\* bold_merged_tsv_merger wrote a shared column in which a Sample ID has no
\* value in the first merged file and a value in a later one.
C4_Witness ==
    /\ mg_pc = "written"
    /\ variant = "bold"
    /\ \E n \in SharedNames : \E id \in AllSampleIds :
          /\ FirstHeld(FirstFileWith(n), id, n) = ""
          /\ id \in SampleIdsOf(folder[FirstFileWith(n)].lines)
          /\ \E i \in MergedFiles : FirstHeld(i, id, n) # ""
          /\ OutputRowsOf(id) # {}
          /\ OutputCellsFilled(id, n)

\* The merged files that hold a non-empty value for column n in the first
\* row they have for Sample ID id.
Holders(id, n) == {i \in MergedFiles : FirstHeld(i, id, n) # ""}

\* The first non-empty value in file processing order, "" when there is none.
FirstNonEmpty(id, n) ==
    IF Holders(id, n) = {} THEN ""
    ELSE FirstHeld(CHOOSE i \in Holders(id, n) : \A j \in Holders(id, n) : i <= j, id, n)

HasConflict(n) ==
    \E id \in AllSampleIds : \E i \in Holders(id, n) : \E j \in Holders(id, n) :
        FirstHeld(i, id, n) # FirstHeld(j, id, n)

\* The merged files that hold a non-empty value for column n in any of
\* their rows of Sample ID id.
AnyRowHolders(id, n) == {i \in MergedFiles : HeldValues(i, id, n) \ {""} # {}}

\* C19: bold_merged_tsv_merger gives a column present in several files, for
\* every Sample ID, the first non-empty value the files hold for it in file
\* processing order; when two files hold different non-empty values a
\* conflict warning is logged for the column; no '_DUPLICATE_FROM_' column
\* remains in the output.
C19_FirstNonEmptyValueWins ==
    (mg_pc = "written" /\ variant = "bold") =>
        /\ \A n \in SharedNames : \A id \in AllSampleIds :
              \A r \in OutputRowsOf(id) : \A i \in OutputColumnsNamed(n) :
                  IF AnyRowHolders(id, n) = {}
                  THEN output[1].rows[r][i] = ""
                  ELSE output[1].rows[r][i] \in
                           HeldValues(CHOOSE k \in AnyRowHolders(id, n) :
                                          \A j \in AnyRowHolders(id, n) : k <= j,
                                      id, n) \ {""}
        /\ \A n \in SharedNames :
              HasConflict(n) => \E w \in 1..Len(conflict_warnings) : conflict_warnings[w].column = n
        /\ \A i \in 1..Len(output[1].cols) : output[1].cols[i].sfx = ""

\* C19 (amended): the merged cell is the first non-empty value among the
\* first rows the merged files have for the Sample ID, in file processing
\* order; when two of these values differ a conflict warning is logged for
\* the column; no '_DUPLICATE_FROM_' column remains in the output.
C19_FirstNonEmptyFirstRowWins ==
    (mg_pc = "written" /\ variant = "bold") =>
        /\ \A n \in SharedNames : \A id \in AllSampleIds :
              \A r \in OutputRowsOf(id) : \A i \in OutputColumnsNamed(n) :
                  output[1].rows[r][i] = FirstNonEmpty(id, n)
        /\ \A n \in SharedNames :
              HasConflict(n) => \E w \in 1..Len(conflict_warnings) : conflict_warnings[w].column = n
        /\ \A i \in 1..Len(output[1].cols) : output[1].cols[i].sfx = ""

\* Two files hold different values of a column for one Sample ID; the
\* earlier file's value is written and the warning is logged.
C19_Witness ==
    /\ mg_pc = "written"
    /\ variant = "bold"
    /\ \E n \in SharedNames : \E id \in AllSampleIds :
          /\ HasConflict(n)
          /\ Cardinality(Holders(id, n)) > 1
          /\ \E w \in 1..Len(conflict_warnings) : conflict_warnings[w].column = n
          /\ OutputRowsOf(id) # {}
          /\ \A r \in OutputRowsOf(id) : \A i \in OutputColumnsNamed(n) :
                output[1].rows[r][i] = FirstNonEmpty(id, n)

\* C5: every handled file is read with its second row as header when its
\* first row holds UUIDs, and with its first row otherwise.
C5_HeaderRowFollowsUuidRow ==
    \A i \in 1..Len(folder) : header_rows[i] = TrueHeaderRow(folder[i].lines)

\* C6: a handled file whose header names the key 'Sample ID', 'SampleID',
\* 'sample_id' or 'sampleid' takes part in the merge, and the written table
\* has its Sample IDs under the column 'Sample ID'.
C6_RecognisedKeyNeverSkipped ==
    /\ \A i \in 1..Len(folder) : HasKey(folder[i].lines) => i \in MergedFiles
    /\ mg_pc = "written" =>
          \A i \in 1..Len(folder) :
              HasKey(folder[i].lines) =>
                  \A id \in SampleIdsOf(folder[i].lines) : OutputRowsOf(id) # {}

\* The merged files whose UUID row the variant at work uses.
UuidSources ==
    {i \in MergedFiles :
        /\ HasUuidRow(folder[i].lines)
        /\ variant = "tsv" => folder[i].name = McfName}

\* The UUIDs that stand above the header of output column c in a source file.
SourceUuids(c) ==
    UNION {{folder[i].lines[1][j] :
               j \in {k \in 1..Len(folder[i].lines[2]) :
                         \/ folder[i].lines[2][k] = c.name
                         \/ /\ c = SampleIdCol
                            /\ folder[i].lines[2][k] \in KeySpellings}} :
           i \in {k \in UuidSources : c.sfx \in {"", folder[k].name}}} \ {""}

\* C7: a written UUID row has one field per output column; the field of a
\* column is a UUID that stood above that column's header in a source file,
\* and is empty when no source file has a UUID above it.
C7_UuidRowAligned ==
    (mg_pc = "written" /\ output[1].uuid # <<>>) =>
        /\ Len(output[1].uuid[1]) = Len(output[1].cols)
        /\ \A i \in 1..Len(output[1].cols) :
              IF SourceUuids(output[1].cols[i]) = {}
              THEN output[1].uuid[1][i] = ""
              ELSE output[1].uuid[1][i] \in SourceUuids(output[1].cols[i])

\* The header of merged file i names the key in a place after the first.
KeyNotFirst(i) == HasKey(folder[i].lines) /\ KeyIndex(folder[i].lines) > 1

\* C21: in every written output of either merger 'Sample ID' is the first
\* column, and in bold_tsv_merger 'Process ID' is the second whenever the
\* output has that column.
C21_SampleIdFirstColumn ==
    mg_pc = "written" =>
        /\ output[1].cols[1] = SampleIdCol
        /\ (variant = "tsv" /\ Col("Process ID") \in Range(output[1].cols)) =>
              /\ Len(output[1].cols) >= 2
              /\ output[1].cols[2] = Col("Process ID")

\* bold_tsv_merger wrote a table whose first merged file names the key
\* last and 'Process ID' after another column.
C21_Witness ==
    /\ mg_pc = "written"
    /\ variant = "tsv"
    /\ \E i \in MergedFiles : KeyNotFirst(i) /\ \A j \in MergedFiles : i <= j
    /\ Len(output[1].cols) >= 3
    /\ output[1].cols[1] = SampleIdCol
    /\ output[1].cols[2] = Col("Process ID")

\* C26: the duplicate-field clean-up of bold_tsv_merger removes only the
\* merge-suffixed copies of the five fields; a column whose name merely
\* begins with one of the five names is written, under its own name, once
\* for every merged file that has it.
C26_LookalikeColumnsKept ==
    (mg_pc = "written" /\ variant = "tsv") =>
        \A n \in UNION {FieldNames(folder[i].lines) : i \in MergedFiles} :
            BeginsWithField(n) =>
                Cardinality(OutputColumnsNamed(n)) =
                    Cardinality({i \in MergedFiles : n \in FieldNames(folder[i].lines)})

\* Every element of b occurs exactly once in a, and a holds nothing else.
IsPermutation(a, b) ==
    /\ Len(a) = Len(b)
    /\ \A c \in Range(b) : Cardinality({i \in 1..Len(a) : a[i] = c}) = 1
    /\ Range(a) \subseteq Range(b)

\* C27: the column reordering of bold_tsv_merger is a permutation: every
\* column the table has after the duplicate clean-up is written exactly
\* once, none is dropped and none is repeated.
C27_ReorderingIsPermutation ==
    [][(variant = "tsv" /\ mg_pc = "reading" /\ mg_pc' = "written") =>
          IsPermutation(output'[1].cols, TsvCleaned(merged_df[1]).cols)]_vars

\* bold_tsv_merger wrote a table in which the reordering moved a column
\* suffixed with its file before a column that carries no suffix.
C27_Witness ==
    /\ mg_pc = "written"
    /\ variant = "tsv"
    /\ \E i \in 1..Len(output[1].cols) : \E j \in 1..Len(output[1].cols) :
          /\ 2 < i
          /\ i < j
          /\ output[1].cols[i].sfx # ""
          /\ output[1].cols[j].sfx = ""
    /\ \E i \in MergedFiles : KeyNotFirst(i)

(***************************************************************************)
(* extract-taxonomy/extract_taxonomy.py                                    *)
(*                                                                         *)
(* A string is the sequence of its pieces, the underscore being a piece of *)
(* its own: "BGE_1_A1" is <<"BGE", "_", "1", "_", "A1">> and '' is <<>>.    *)
(* Every cell of a table is a string or NaN.                               *)
(***************************************************************************)
MaxDirs == 2

NaN == <<"#NaN">>

EmptyString == <<>>

isna(x) == x = NaN

\* str(x), as an f-string formats a cell.
Str(x) == IF isna(x) THEN <<"nan">> ELSE x

\* s.split('_')
RECURSIVE Split(_)
Split(s) ==
    IF \A i \in 1..Len(s) : s[i] # "_" THEN <<s>>
    ELSE LET i == CHOOSE k \in 1..Len(s) :
                      s[k] = "_" /\ \A j \in 1..(k - 1) : s[j] # "_"
         IN  <<SubSeq(s, 1, i - 1)>> \o Split(SubSeq(s, i + 1, Len(s)))

create_plate_well_id(plate_id, well_position) ==
    Str(plate_id) \o <<"_">> \o Str(well_position)

\* None is modelled by NaN: neither is ever among the target plate ids.
extract_plate_id_from_sample_id(sample_id) ==
    IF isna(sample_id) \/ sample_id = EmptyString THEN NaN
    ELSE LET parts == Split(Str(sample_id))
         IN  IF Len(parts) >= 2 /\ parts[1] = <<"BGE">>
             THEN parts[1] \o <<"_">> \o parts[2]
             ELSE NaN

\* series == value: NaN equals nothing.
PdEq(a, b) == ~isna(a) /\ ~isna(b) /\ a = b

TxColIndex(cols, name) == CHOOSE i \in 1..Len(cols) : cols[i] = name

\* dict[key] = value on an insertion-ordered dict of <<key, value>> pairs.
RowSet(row, key, value) ==
    IF \E i \in 1..Len(row) : row[i][1] = key
    THEN [i \in 1..Len(row) |-> IF row[i][1] = key THEN <<key, value>> ELSE row[i]]
    ELSE Append(row, <<key, value>>)

\* Lines 131-133: the taxonomy columns added to a result row.
RECURSIVE AddTaxonomyColumns(_, _, _, _)
AddTaxonomyColumns(result_row, cols, taxonomy_row, i) ==
    IF i > Len(cols) THEN result_row
    ELSE AddTaxonomyColumns(
             IF cols[i] # "Sample ID"
             THEN RowSet(result_row, cols[i], taxonomy_row[i])
             ELSE result_row,
             cols, taxonomy_row, i + 1)

\* The test without `not merged_df['Plate ID'].isna().all()`.
UsesPlateIdColumnWhenPresent(merged) == merged.has_plate_id

\* Lines 83-84: the Plate ID column exists and is not all NaN.
UsesPlateIdColumn(merged) ==
    merged.has_plate_id /\ ~(\A i \in 1..Len(merged.rows) : isna(merged.rows[i].plate_id))

\* Every row of the table is taken, whatever its plate.
SelectsEveryRow(merged, target_plate_ids) ==
    [i \in 1..Len(merged.rows) |->
        [sample_id  |-> merged.rows[i].sample_id,
         plate_well |-> IF UsesPlateIdColumn(merged)
                        THEN create_plate_well_id(merged.rows[i].plate_id, merged.rows[i].well)
                        ELSE merged.rows[i].sample_id]]

\* Lines 83-101: the selected rows, each with its Plate_Well.
target_merged(merged, target_plate_ids) ==
    IF UsesPlateIdColumn(merged)
    THEN LET sel == SelectSeq(merged.rows, LAMBDA r : r.plate_id \in target_plate_ids)
         IN  [i \in 1..Len(sel) |->
                 [sample_id  |-> sel[i].sample_id,
                  plate_well |-> create_plate_well_id(sel[i].plate_id, sel[i].well)]]
    ELSE LET sel == SelectSeq(merged.rows,
                       LAMBDA r : extract_plate_id_from_sample_id(r.sample_id)
                                      \in target_plate_ids)
         IN  [i \in 1..Len(sel) |->
                 [sample_id |-> sel[i].sample_id, plate_well |-> sel[i].sample_id]]

\* The two lookups in the opposite order.
TaxonomyMatchFirstByPlateWell(taxonomy, sample_id, plate_well) ==
    LET k == TxColIndex(taxonomy.cols, "Sample ID")
        by_sample_id  == SelectSeq(taxonomy.rows, LAMBDA r : PdEq(r[k], sample_id))
        by_plate_well == SelectSeq(taxonomy.rows, LAMBDA r : PdEq(r[k], plate_well))
    IN  IF by_plate_well # <<>> THEN by_plate_well ELSE by_sample_id

\* Lines 107-112: the taxonomy rows matched by SampleID, else by Plate_Well.
TaxonomyMatch(taxonomy, sample_id, plate_well) ==
    LET k == TxColIndex(taxonomy.cols, "Sample ID")
        by_sample_id  == SelectSeq(taxonomy.rows, LAMBDA r : PdEq(r[k], sample_id))
        by_plate_well == SelectSeq(taxonomy.rows, LAMBDA r : PdEq(r[k], plate_well))
    IN  IF by_sample_id # <<>> THEN by_sample_id ELSE by_plate_well

\* Lines 121, 125: the Process ID of the result row.
LabProcessId(lab, taxonomy_sample_id) ==
    LET lab_match == SelectSeq(lab, LAMBDA r : PdEq(r.sample_id, taxonomy_sample_id))
    IN  IF lab_match # <<>> THEN lab_match[1].process_id ELSE EmptyString

\* Lines 103-135: the body of the loop over the selected rows; <<>> when the
\* row matches no taxonomy row, else <<result_row>>.
MatchRow(merged_row, taxonomy, lab) ==
    LET taxonomy_match == TaxonomyMatch(taxonomy, merged_row.sample_id,
                                        merged_row.plate_well)
        taxonomy_row == taxonomy_match[1]
        taxonomy_sample_id == taxonomy_row[TxColIndex(taxonomy.cols, "Sample ID")]
        result_row == << <<"Process ID", LabProcessId(lab, taxonomy_sample_id)>>,
                         <<"Plate_Well", merged_row.plate_well>>,
                         <<"Sample ID", taxonomy_sample_id>> >>
    IN  IF taxonomy_match = <<>> THEN <<>>
        ELSE <<AddTaxonomyColumns(result_row, taxonomy.cols, taxonomy_row, 1)>>

match_records(merged, taxonomy, lab, target_plate_ids) ==
    LET selected == target_merged(merged, target_plate_ids)
    IN  Flatten([i \in 1..Len(selected) |-> MatchRow(selected[i], taxonomy, lab)])

(***************************************************************************)
(* Taxonomy extractor: the input tables of the model                       *)
(***************************************************************************)
BGE_1 == <<"BGE", "_", "1">>

BGE_2 == <<"BGE", "_", "2">>

BGE_1_A1 == <<"BGE", "_", "1", "_", "A1">>

BGE_2_B2 == <<"BGE", "_", "2", "_", "B2">>

\* The plate ids given on the command line.
plate_ids == {BGE_1, BGE_2}

MergedRow(sample_id, plate_id, well) ==
    [sample_id |-> sample_id, plate_id |-> plate_id, well |-> well]

\* merged_custom_fields.tsv: with a filled, a partly filled, an empty or no
\* Plate ID column; SampleIDs that are plain, that embed a plate id, that
\* are missing, or that only look like an embedded plate id.
MergedTables ==
    { [has_plate_id |-> TRUE,
       rows |-> << MergedRow(<<"s1">>, BGE_1, <<"A1">>),
                   MergedRow(BGE_2_B2, BGE_2, <<"B2">>),
                   MergedRow(<<"s3">>, <<"BGE", "_", "3">>, <<"A1">>) >>],
      [has_plate_id |-> TRUE,
       rows |-> << MergedRow(BGE_1_A1, NaN, NaN),
                   MergedRow(<<"s2">>, BGE_2, <<"B2">>) >>],
      [has_plate_id |-> TRUE,
       rows |-> << MergedRow(NaN, BGE_1, <<"A1">>),
                   MergedRow(<<"s9">>, BGE_1, NaN) >>],
      [has_plate_id |-> TRUE,
       rows |-> << MergedRow(BGE_1_A1, NaN, NaN),
                   MergedRow(<<"X", "_", "1", "_", "A1">>, NaN, NaN),
                   MergedRow(<<"BGE">>, NaN, NaN),
                   MergedRow(BGE_2_B2, NaN, <<"B2">>) >>],
      [has_plate_id |-> FALSE,
       rows |-> << MergedRow(BGE_1_A1, NaN, NaN),
                   MergedRow(<<"BGE">>, NaN, NaN),
                   MergedRow(NaN, NaN, NaN),
                   MergedRow(<<"BGE", "_", "2">>, NaN, NaN),
                   MergedRow(<<"BGE", "_", "3", "_", "C3">>, NaN, NaN) >>] }

\* taxonomy.tsv: a Sample ID that is a SampleID, one that is a plate-well
\* identifier, repeated and missing Sample IDs, differing columns, and a
\* table with a Process ID column of its own.
TaxonomyTables ==
    { [cols |-> <<"Sample ID", "Phylum">>,
       rows |-> << <<<<"s1">>, <<"Arthropoda">>>>,
                   <<BGE_1_A1, <<"Chordata">>>> >>],
      [cols |-> <<"Sample ID", "Phylum">>,
       rows |-> << <<BGE_1_A1, <<"Arthropoda">>>>,
                   <<BGE_1_A1, <<"Chordata">>>>,
                   <<BGE_2_B2, NaN>> >>],
      [cols |-> <<"Genus", "Sample ID">>,
       rows |-> << <<<<"Apis">>, NaN>>,
                   <<<<"Bombus">>, BGE_2_B2>>,
                   <<<<"Osmia">>, <<"BGE", "_", "1", "_", "nan">>>> >>],
      [cols |-> <<"Sample ID", "Phylum">>,
       rows |-> << <<<<"zz">>, <<"Mollusca">>>> >>],
      [cols |-> <<"Sample ID", "Process ID", "Phylum">>,
       rows |-> << <<<<"s1">>, <<"T1">>, <<"Arthropoda">>>>,
                   <<BGE_2_B2, NaN, <<"Chordata">>>> >>] }

LabRow(sample_id, process_id) == [sample_id |-> sample_id, process_id |-> process_id]

\* lab.tsv: a repeated Sample ID, a missing Sample ID, a missing Process ID,
\* no rows.
LabTables ==
    { << LabRow(<<"s1">>, <<"P1">>), LabRow(BGE_1_A1, <<"P2">>),
         LabRow(BGE_1_A1, <<"P3">>) >>,
      << LabRow(NaN, <<"P4">>), LabRow(BGE_2_B2, NaN), LabRow(BGE_2_B2, <<"P5">>) >>,
      <<>> }

(***************************************************************************)
(* Taxonomy extractor: main                                                *)
(***************************************************************************)
\* Lines 165-176: one iteration of the loop over file_triplets.
ProcessDirectory ==
    /\ tx_pc = "processing"
    /\ Len(directories) < MaxDirs
    /\ \E merged \in MergedTables, taxonomy \in TaxonomyTables, lab \in LabTables :
          LET results == match_records(merged, taxonomy, lab, plate_ids)
          IN  /\ directories' = Append(directories,
                     [merged |-> merged, taxonomy |-> taxonomy, lab |-> lab,
                      selected |-> target_merged(merged, plate_ids),
                      results |-> results])
              /\ all_results' = all_results \o results
    /\ UNCHANGED <<tx_pc, output_df>>
    /\ UNCHANGED <<sbVars, mgVars, mpVars>>

\* pd.DataFrame(all_results).columns: the keys in order of first appearance.
RECURSIVE FrameColumns(_, _)
FrameColumns(rows, seen) ==
    IF rows = <<>> THEN seen
    ELSE LET keys == [i \in 1..Len(Head(rows)) |-> Head(rows)[i][1]]
             fresh == SelectSeq(keys, LAMBDA c : c \notin Range(seen))
         IN  FrameColumns(Tail(rows), seen \o fresh)

\* The cell of a result row under a column; NaN where the row has no such key.
RowGet(row, key) ==
    IF \E i \in 1..Len(row) : row[i][1] = key
    THEN row[CHOOSE i \in 1..Len(row) : row[i][1] = key][2]
    ELSE NaN

\* Lines 180-188: the written frame, the three fixed columns first.
OutputFrame(results) ==
    LET frame_columns == FrameColumns(results, <<>>)
        columns == <<"Process ID", "Plate_Well", "Sample ID">>
        other_columns == SelectSeq(frame_columns, LAMBDA c : c \notin Range(columns))
        ordered == columns \o other_columns
    IN  [cols |-> ordered,
         rows |-> [r \in 1..Len(results) |->
                      [i \in 1..Len(ordered) |-> RowGet(results[r], ordered[i])]]]

\* Lines 178-194: the output is written when there is a result.
WriteOutput ==
    /\ tx_pc = "processing"
    /\ tx_pc' = "done"
    /\ output_df' = IF all_results # <<>> THEN <<OutputFrame(all_results)>> ELSE <<>>
    /\ UNCHANGED <<directories, all_results>>
    /\ UNCHANGED <<sbVars, mgVars, mpVars>>

TaxonomyInit ==
    /\ tx_pc = "processing"
    /\ directories = <<>>
    /\ all_results = <<>>
    /\ output_df = <<>>

TaxonomyIdle ==
    /\ tx_pc = "idle"
    /\ directories = <<>>
    /\ all_results = <<>>
    /\ output_df = <<>>

TaxonomyNext == ProcessDirectory \/ WriteOutput

(***************************************************************************)
(* Taxonomy extractor: properties                                          *)
(***************************************************************************)
TaxonomyIds(taxonomy) ==
    [r \in 1..Len(taxonomy.rows) |->
        taxonomy.rows[r][TxColIndex(taxonomy.cols, "Sample ID")]]

\* Some taxonomy row has x as its Sample ID.
InTaxonomy(taxonomy, x) ==
    ~isna(x) /\ \E r \in 1..Len(taxonomy.rows) : TaxonomyIds(taxonomy)[r] = x

\* The key a selected row is matched under.
KeyUsed(taxonomy, sel) ==
    IF InTaxonomy(taxonomy, sel.sample_id) THEN sel.sample_id ELSE sel.plate_well

\* The first taxonomy row whose Sample ID is x.
FirstTaxonomyRow(taxonomy, x) ==
    taxonomy.rows[CHOOSE r \in 1..Len(taxonomy.rows) :
                     /\ TaxonomyIds(taxonomy)[r] = x
                     /\ \A q \in 1..(r - 1) : TaxonomyIds(taxonomy)[q] # x]

\* The selected rows of a directory that match a taxonomy row.
MatchedRows(d) ==
    SelectSeq(d.selected,
              LAMBDA sel : \/ InTaxonomy(d.taxonomy, sel.sample_id)
                           \/ InTaxonomy(d.taxonomy, sel.plate_well))

\* C8: the result rows of a directory are, in order, one per selected row
\* that matches a taxonomy row; a row is matched under its SampleID when a
\* taxonomy row has that Sample ID and under its Plate_Well only otherwise,
\* and carries the columns of the first taxonomy row with the matched key.
C8_SampleIdBeforePlateWell ==
    \A di \in 1..Len(directories) :
        LET d == directories[di]
            matched == MatchedRows(d)
        IN  /\ Len(d.results) = Len(matched)
            /\ \A k \in 1..Len(matched) :
                  LET key == KeyUsed(d.taxonomy, matched[k])
                      row == FirstTaxonomyRow(d.taxonomy, key)
                  IN  /\ RowGet(d.results[k], "Plate_Well") = matched[k].plate_well
                      /\ RowGet(d.results[k], "Sample ID") = key
                      /\ \A c \in 1..Len(d.taxonomy.cols) :
                            d.taxonomy.cols[c] # "Sample ID" =>
                                RowGet(d.results[k], d.taxonomy.cols[c]) = row[c]

\* A directory in which a selected row has both its SampleID and its
\* Plate_Well in the taxonomy table, one in which a row has only its
\* Plate_Well there, under a repeated Sample ID, and one in which a selected
\* row has neither.
C8_Witness ==
    /\ \E di \in 1..Len(directories) : \E k \in 1..Len(directories[di].selected) :
          LET d == directories[di]
              sel == d.selected[k]
          IN  /\ sel.sample_id # sel.plate_well
              /\ InTaxonomy(d.taxonomy, sel.sample_id)
              /\ InTaxonomy(d.taxonomy, sel.plate_well)
              /\ \E j \in 1..Len(d.results) :
                    RowGet(d.results[j], "Sample ID") = sel.sample_id
    /\ \E di \in 1..Len(directories) : \E k \in 1..Len(directories[di].selected) :
          LET d == directories[di]
              sel == d.selected[k]
          IN  /\ ~InTaxonomy(d.taxonomy, sel.sample_id)
              /\ InTaxonomy(d.taxonomy, sel.plate_well)
              /\ Cardinality({r \in 1..Len(d.taxonomy.rows) :
                                 TaxonomyIds(d.taxonomy)[r] = sel.plate_well}) > 1
              /\ \E j \in 1..Len(d.results) :
                    RowGet(d.results[j], "Sample ID") = sel.plate_well
    /\ \E di \in 1..Len(directories) :
          /\ directories[di].results # <<>>
          /\ Len(directories[di].results) < Len(directories[di].selected)

\* The Plate ID column exists and holds a value in some row.
HasFilledPlateIdColumn(merged) ==
    merged.has_plate_id /\ \E i \in 1..Len(merged.rows) : merged.rows[i].plate_id # NaN

\* The plate id embedded in a SampleID: its first two underscore-separated
\* parts when there are two and the first is BGE; <<>> stands for absent.
EmbeddedPlateId(sample_id) ==
    IF sample_id = NaN THEN <<>>
    ELSE LET parts == Split(sample_id)
         IN  IF Len(parts) >= 2 /\ parts[1] = <<"BGE">>
             THEN <<parts[1] \o <<"_">> \o parts[2]>>
             ELSE <<>>

\* The SampleIDs of the rows of a merged table that the scheme selects.
SelectedBy(merged, by_column) ==
    LET rows == SelectSeq(merged.rows,
                    LAMBDA r : IF by_column
                               THEN r.plate_id \in plate_ids
                               ELSE /\ EmbeddedPlateId(r.sample_id) # <<>>
                                    /\ EmbeddedPlateId(r.sample_id)[1] \in plate_ids)
    IN  [i \in 1..Len(rows) |-> rows[i].sample_id]

\* C9: the rows of a merged table are all selected by the Plate ID column
\* when that column exists and holds a value, and all by the plate id
\* embedded in SampleID otherwise.
C9_SchemeChosenPerFile ==
    \A di \in 1..Len(directories) :
        LET d == directories[di]
        IN  [i \in 1..Len(d.selected) |-> d.selected[i].sample_id]
                = SelectedBy(d.merged, HasFilledPlateIdColumn(d.merged))

\* A table selected by its Plate ID column although a row without Plate ID
\* embeds a target plate id in its SampleID, and a table with an all-empty
\* Plate ID column selected by SampleID, in which a SampleID is the bare
\* word BGE.
C9_Witness ==
    /\ \E di \in 1..Len(directories) :
          LET d == directories[di]
          IN  /\ HasFilledPlateIdColumn(d.merged)
              /\ d.selected # <<>>
              /\ \E i \in 1..Len(d.merged.rows) :
                    /\ d.merged.rows[i].plate_id = NaN
                    /\ EmbeddedPlateId(d.merged.rows[i].sample_id) = <<BGE_1>>
                    /\ \A k \in 1..Len(d.selected) :
                          d.selected[k].sample_id # d.merged.rows[i].sample_id
    /\ \E di \in 1..Len(directories) :
          LET d == directories[di]
          IN  /\ d.merged.has_plate_id
              /\ ~HasFilledPlateIdColumn(d.merged)
              /\ d.selected # <<>>
              /\ Len(d.selected) < Len(d.merged.rows)
              /\ \E i \in 1..Len(d.merged.rows) : d.merged.rows[i].sample_id = <<"BGE">>

\* The plate a merged row belongs to under the scheme of its table: the
\* Plate ID value, or the plate id embedded in SampleID; <<>> when none.
PlateOf(merged, r) ==
    IF HasFilledPlateIdColumn(merged)
    THEN (IF r.plate_id = NaN THEN <<>> ELSE <<r.plate_id>>)
    ELSE EmbeddedPlateId(r.sample_id)

\* The rows of a merged table that belong to a requested plate.
RequestedRows(merged) ==
    {i \in 1..Len(merged.rows) :
        /\ PlateOf(merged, merged.rows[i]) # <<>>
        /\ PlateOf(merged, merged.rows[i])[1] \in plate_ids}

\* The Plate_Well of a merged row under the scheme of its table.
PlateWellOf(merged, r) ==
    IF HasFilledPlateIdColumn(merged)
    THEN r.plate_id \o <<"_">> \o (IF r.well = NaN THEN <<"nan">> ELSE r.well)
    ELSE r.sample_id

\* C25: every row match_records returns comes from a merged row of a
\* requested plate, whose Plate_Well it carries, and there are never more
\* returned rows than merged rows of the requested plates.
C25_ResultsOfRequestedPlates ==
    \A di \in 1..Len(directories) :
        LET d == directories[di]
        IN  /\ \A k \in 1..Len(d.results) :
                  \E i \in RequestedRows(d.merged) :
                      RowGet(d.results[k], "Plate_Well") = PlateWellOf(d.merged, d.merged.rows[i])
            /\ Len(d.results) <= Cardinality(RequestedRows(d.merged))

\* A table from which rows were returned although one of its rows, of no
\* requested plate, has a SampleID the taxonomy table knows.
C25_Witness ==
    \E di \in 1..Len(directories) :
        LET d == directories[di]
            k == TxColIndex(d.taxonomy.cols, "Sample ID")
        IN  /\ d.results # <<>>
            /\ \E i \in (1..Len(d.merged.rows)) \ RequestedRows(d.merged) :
                  \E t \in 1..Len(d.taxonomy.rows) :
                      /\ d.merged.rows[i].sample_id # NaN
                      /\ d.taxonomy.rows[t][k] = d.merged.rows[i].sample_id

\* The directory the r-th result row comes from.
RECURSIVE DirectoryOfRow(_, _)
DirectoryOfRow(r, di) ==
    IF r <= Len(directories[di].results) THEN di
    ELSE DirectoryOfRow(r - Len(directories[di].results), di + 1)

\* The Process IDs of the lab rows with the given Sample ID, in file order.
LabProcessIds(lab, sample_id) ==
    LET rows == SelectSeq(lab, LAMBDA r : r.sample_id # NaN /\ r.sample_id = sample_id)
    IN  [i \in 1..Len(rows) |-> rows[i].process_id]

\* The taxonomy columns of the directories that gave a result row, other
\* than the three columns the written table starts with.
EmittedTaxonomyColumns ==
    UNION {Range(directories[di].taxonomy.cols) \ {"Process ID", "Plate_Well", "Sample ID"} :
           di \in {k \in 1..Len(directories) : directories[k].results # <<>>}}

\* C10: the written table starts with Process ID, Plate_Well, Sample ID, the
\* other columns being the taxonomy columns; it has a row per result, whose
\* Process ID is that of the first lab row of its directory with the row's
\* Sample ID, and '' when there is no such lab row.
C10_ColumnsAndProcessId ==
    (tx_pc = "done" /\ output_df # <<>>) =>
        LET out == output_df[1]
        IN  /\ SubSeq(out.cols, 1, 3) = <<"Process ID", "Plate_Well", "Sample ID">>
            /\ {out.cols[i] : i \in 4..Len(out.cols)} = EmittedTaxonomyColumns
            /\ Len(out.cols) = 3 + Cardinality(EmittedTaxonomyColumns)
            /\ Len(out.rows) = Len(all_results)
            /\ \A r \in 1..Len(out.rows) :
                  LET lab == directories[DirectoryOfRow(r, 1)].lab
                      ids == LabProcessIds(lab, out.rows[r][3])
                  IN  /\ out.rows[r][2] = RowGet(all_results[r], "Plate_Well")
                      /\ out.rows[r][3] = RowGet(all_results[r], "Sample ID")
                      /\ out.rows[r][1] = IF ids = <<>> THEN EmptyString ELSE ids[1]

(***************************************************************************)
(* Choropleth mapper: csv-mapper/sample_mapper.py                          *)
(*                                                                         *)
(* A name is the sequence of its characters, so that equality, case and    *)
(* containment are computed and not assumed.  A Series is a sequence of    *)
(* [key, n] in index order.  A missing CSV cell is NaN.                    *)
(***************************************************************************)
MaxCsvRows == 3

\* The characters of the modelled names, in code point order.
Alphabet ==
    <<" ", ".",
      "A", "B", "C", "D", "E", "F", "G", "H", "I", "J", "K", "L", "M",
      "N", "O", "P", "Q", "R", "S", "T", "U", "V", "W", "X", "Y", "Z",
      "a", "b", "c", "d", "e", "f", "g", "h", "i", "j", "k", "l", "m",
      "n", "o", "p", "q", "r", "s", "t", "u", "v", "w", "x", "y", "z">>

Ord(c) == CHOOSE i \in 1..Len(Alphabet) : Alphabet[i] = c

\* str.lower() on one character, as a table over the alphabet.
LowerCase == [c \in Range(Alphabet) |-> IF Ord(c) \in 3..28 THEN Alphabet[Ord(c) + 26] ELSE c]

Lower(c) == LowerCase[c]

\* a < b on Python strings.
StrLess(a, b) ==
    \E i \in 1..Len(b) :
        /\ \A j \in 1..(i - 1) : j <= Len(a) /\ a[j] = b[j]
        /\ (i > Len(a) \/ Ord(a[i]) < Ord(b[i]))

\* The keys of a groupby, which sorts them.
RECURSIVE SortNames(_)
SortNames(S) ==
    IF S = {} THEN <<>>
    ELSE LET m == CHOOSE x \in S : \A y \in S \ {x} : StrLess(x, y)
         IN <<m>> \o SortNames(S \ {m})

\* The distinct values of a column in order of first appearance.
RECURSIVE Unique(_)
Unique(values) ==
    IF values = <<>> THEN <<>>
    ELSE LET front == Unique(SubSeq(values, 1, Len(values) - 1))
             last == values[Len(values)]
         IN IF last \in Range(front) THEN front ELSE Append(front, last)

\* The results a pandas sort of s by descending key can give, key[i] being
\* the sort key of s[i].  The default kind='quicksort' is not stable, so
\* rows of equal key come out in any order: every rearrangement of s with
\* non-increasing keys is a result.
DescendingOrders(s, key) ==
    LET n == Len(s)
        orders == {p \in [1..n -> 1..n] :
                      /\ \A i, j \in 1..n : p[i] = p[j] => i = j
                      /\ \A i \in 1..(n - 1) : key[p[i]] >= key[p[i + 1]]}
    IN  {[i \in 1..n |-> s[p[i]]] : p \in orders}

\* Series.sort_values(ascending=False): the possible results.
sort_values(series) == DescendingOrders(series, [i \in 1..Len(series) |-> series[i].n])

CsvRow(c, z) == [country |-> c, z |-> z]

\* df.dropna(subset=[country_column])
dropna(rows) == SelectSeq(rows, LAMBDA r : ~isna(r.country))

CountryColumn(rows) == [i \in 1..Len(rows) |-> rows[i].country]

RowsOfCountry(rows, c) == SelectSeq(rows, LAMBDA r : r.country = c)

\* The grouping counts every row's value, missing or not.
CountsMissingValues(rows, c) ==
    Cardinality({RowsOfCountry(rows, c)[i].z : i \in 1..Len(RowsOfCountry(rows, c))})

\* groupby(country)[count_column].nunique(): missing values are not counted.
nunique(rows, c) ==
    Cardinality({RowsOfCountry(rows, c)[i].z : i \in 1..Len(RowsOfCountry(rows, c))} \ {NaN})

\* groupby(country)[count_column].count(): the non-null cells.
count(rows, c) == Len(SelectSeq(RowsOfCountry(rows, c), LAMBDA r : ~isna(r.z)))

\* df[country_column].value_counts(): the possible results, sorted by
\* descending frequency.
value_counts(rows) ==
    LET keys == Unique(CountryColumn(rows))
    IN sort_values([i \in 1..Len(keys) |->
                       [key |-> keys[i], n |-> Len(RowsOfCountry(rows, keys[i]))]])

GroupBy(rows, unique_count) ==
    LET keys == SortNames(Range(CountryColumn(rows)))
    IN [i \in 1..Len(keys) |->
           [key |-> keys[i],
            n |-> IF unique_count THEN nunique(rows, keys[i]) ELSE count(rows, keys[i])]]

\* The CSV file: whether it can be read, its columns, its rows.
CsvFile(readable, columns, rows) == [readable |-> readable, columns |-> columns, rows |-> rows]

\* The possible results.  None is <<>>, a returned Series s is <<s>>.  The
\* country column is "country"; count_column is "" when the option is not
\* given.
load_and_process_data(csv, count_column, unique_count) ==
    IF ~csv.readable THEN {[counts |-> <<>>, printed |-> <<"Error loading CSV file">>]}
    ELSE IF "country" \notin csv.columns
    THEN {[counts |-> <<>>, printed |-> <<"Error: Column not found in CSV file.">>]}
    ELSE IF count_column # "" /\ count_column \notin csv.columns
    THEN {[counts |-> <<>>, printed |-> <<"Error: Count column not found in CSV file.">>]}
    ELSE LET df_clean == dropna(csv.rows)
             sorted == IF count_column # ""
                       THEN sort_values(GroupBy(df_clean, unique_count))
                       ELSE value_counts(df_clean)
         IN  {[counts |-> <<country_count>>, printed |-> <<>>] : country_count \in sorted}

(***************************************************************************)
(* The shapefile.  A feature has its four name columns (NAME, NAME_LONG,   *)
(* NAME_EN, ADMIN) and a rectangular geometry <<min_lon, min_lat, max_lon, *)
(* max_lat>>.  Coordinates are whole half degrees, so that min_distance    *)
(* (1.5 degrees) and the centroids are integers.                           *)
(***************************************************************************)
HalfDegrees(d) == 2 * d

min_distance == 3

MaxLon == HalfDegrees(180)

MaxLat == HalfDegrees(90)

Belgium == <<"B", "e", "l", "g", "i", "u", "m">>

Luxembourg == <<"L", "u", "x", "e", "m", "b", "o", "u", "r", "g">>

Netherlands == <<"N", "e", "t", "h", "e", "r", "l", "a", "n", "d", "s">>

Niger == <<"N", "i", "g", "e", "r">>

LowerCaseNiger == <<"n", "i", "g", "e", "r">>

Nigeria == <<"N", "i", "g", "e", "r", "i", "a">>

Turkey == <<"T", "u", "r", "k", "e", "y">>

Turkiye == <<"T", "u", "r", "k", "i", "y", "e">>

UnitedKingdom == <<"U", "n", "i", "t", "e", "d", " ", "K", "i", "n", "g", "d", "o", "m">>

UK == <<"U", "K">>

DottedUK == <<"U", ".", "K", ".">>

Russia == <<"R", "u", "s", "s", "i", "a">>

RussianFederation ==
    <<"R", "u", "s", "s", "i", "a", "n", " ", "F", "e", "d", "e", "r", "a", "t", "i", "o", "n">>

FrenchGuiana == <<"F", "r", "e", "n", "c", "h", " ", "G", "u", "i", "a", "n", "a">>

Atlantis == <<"A", "t", "l", "a", "n", "t", "i", "s">>

Antarctica == <<"A", "n", "t", "a", "r", "c", "t", "i", "c", "a">>

Feature(name, name_long, rect) ==
    [names |-> <<name, name_long, name, name>>, rect |-> rect, sample_count |-> 0]

\* gpd.read_file(shapefile_path) of the modelled shapefile.
World ==
    <<Feature(Belgium, Belgium, <<6, 100, 12, 102>>),
      Feature(Netherlands, Netherlands, <<6, 102, 12, 106>>),
      Feature(Luxembourg, Luxembourg, <<10, 99, 12, 101>>),
      Feature(UnitedKingdom, UnitedKingdom, <<-16, 100, 4, 120>>),
      Feature(Turkey, Turkey, <<52, 72, 88, 84>>),
      Feature(Russia, RussianFederation, <<-360, 84, 360, 164>>),
      Feature(Niger, Niger, <<0, 24, 32, 48>>),
      Feature(Nigeria, Nigeria, <<6, 8, 30, 28>>),
      Feature(FrenchGuiana, FrenchGuiana, <<-108, 4, -104, 12>>),
      Feature(Antarctica, Antarctica, <<-360, -180, 360, -120>>)>>

NameColumns == <<1, 2, 3, 4>>

\* create_country_mapping(): the entries that rename; every other name,
\* listed or not, is looked up as itself.
country_mapping(name) ==
    CASE name = UK -> UnitedKingdom
      [] name = Turkiye -> Turkey
      [] name = RussianFederation -> Russia
      [] OTHER -> name

\* One pattern character against one character of the text, under
\* re.IGNORECASE; "." is the only metacharacter of the alphabet.
CharMatches(p, c) == p = "." \/ Lower(p) = Lower(c)

MatchesAt(pat, text, k) == \A j \in 1..Len(pat) : CharMatches(pat[j], text[k + j - 1])

\* Series.str.contains(pat, case=False): a regular expression search.
str_contains(text, pat) == \E k \in 1..(Len(text) - Len(pat) + 1) : MatchesAt(pat, text, k)

ExactMask(gdf, col, name) == {i \in 1..Len(gdf) : gdf[i].names[col] = name}

FuzzyMask(gdf, col, pat) == {i \in 1..Len(gdf) : str_contains(gdf[i].names[col], pat)}

\* The first name column whose mask has any feature, 0 when none has.
FirstExactColumn(gdf, name) ==
    IF \E c \in 1..Len(NameColumns) : ExactMask(gdf, NameColumns[c], name) # {}
    THEN NameColumns[CHOOSE c \in 1..Len(NameColumns) :
            /\ ExactMask(gdf, NameColumns[c], name) # {}
            /\ \A b \in 1..(c - 1) : ExactMask(gdf, NameColumns[b], name) = {}]
    ELSE 0

FirstFuzzyColumn(gdf, pat) ==
    IF \E c \in 1..Len(NameColumns) : FuzzyMask(gdf, NameColumns[c], pat) # {}
    THEN NameColumns[CHOOSE c \in 1..Len(NameColumns) :
            /\ FuzzyMask(gdf, NameColumns[c], pat) # {}
            /\ \A b \in 1..(c - 1) : FuzzyMask(gdf, NameColumns[b], pat) = {}]
    ELSE 0

\* One turn of the matching loop: the features found, and how.
MatchCountry(gdf, data_country) ==
    LET exact == FirstExactColumn(gdf, country_mapping(data_country))
        fuzzy == FirstFuzzyColumn(gdf, data_country)
    IN IF exact # 0
       THEN [kind |-> "Matched", mask |-> ExactMask(gdf, exact, country_mapping(data_country))]
       ELSE IF fuzzy # 0
       THEN [kind |-> "Fuzzy matched", mask |-> FuzzyMask(gdf, fuzzy, data_country)]
       ELSE [kind |-> "Unmatched", mask |-> {}]

SetMin(S) == CHOOSE x \in S : \A y \in S : x <= y

SetMax(S) == CHOOSE x \in S : \A y \in S : x >= y

\* GeoDataFrame.total_bounds of the features idx.
total_bounds(gdf, idx) ==
    <<SetMin({gdf[i].rect[1] : i \in idx}), SetMin({gdf[i].rect[2] : i \in idx}),
      SetMax({gdf[i].rect[3] : i \in idx}), SetMax({gdf[i].rect[4] : i \in idx})>>

Bounds(min_lon, min_lat, max_lon, max_lat) ==
    [min_lon |-> min_lon, max_lon |-> max_lon, min_lat |-> min_lat, max_lat |-> max_lat]

Min(a, b) == IF a <= b THEN a ELSE b

\* The widened box is returned as it is.
ReturnsWidenedBox(x, limit) == x

ClampMin(x, limit) == Max(x, limit)

ClampMax(x, limit) == Min(x, limit)

matched_countries(world_gdf, country_names) ==
    UNION {MatchCountry(world_gdf, country_names[i]).mask : i \in 1..Len(country_names)}

\* custom_bounds is <<>> for None, else <<min_lon, min_lat, max_lon, max_lat>>.
calculate_map_bounds(world_gdf, country_names, border_extension, custom_bounds) ==
    IF custom_bounds # <<>>
    THEN Bounds(custom_bounds[1], custom_bounds[2], custom_bounds[3], custom_bounds[4])
    ELSE LET matched == matched_countries(world_gdf, country_names)
             bounds == IF matched = {}
                       THEN total_bounds(world_gdf, 1..Len(world_gdf))
                       ELSE total_bounds(world_gdf, matched)
         IN Bounds(ClampMin(bounds[1] - border_extension, -MaxLon),
                   ClampMin(bounds[2] - border_extension, -MaxLat),
                   ClampMax(bounds[3] + border_extension, MaxLon),
                   ClampMax(bounds[4] + border_extension, MaxLat))

\* world.cx[min_lon:max_lon, min_lat:max_lat]: the features meeting the box.
cx(gdf, bounds) ==
    SelectSeq(gdf, LAMBDA f : /\ f.rect[1] <= bounds.max_lon /\ f.rect[3] >= bounds.min_lon
                              /\ f.rect[2] <= bounds.max_lat /\ f.rect[4] >= bounds.min_lat)

\* The features whose NAME or NAME_EN contains 'French Guiana' are dropped.
WithoutFrenchGuiana(gdf) ==
    SelectSeq(gdf, LAMBDA f : /\ ~str_contains(f.names[1], FrenchGuiana)
                              /\ ~str_contains(f.names[3], FrenchGuiana))

FilteredWorld == WithoutFrenchGuiana(World)

SetCount(gdf, mask, n) ==
    [i \in 1..Len(gdf) |-> IF i \in mask THEN [gdf[i] EXCEPT !.sample_count = n] ELSE gdf[i]]

\* The matching loop over country_counts.items(): the region with its
\* sample counts, the lines printed, and the unmatched countries.
RECURSIVE MatchAll(_, _)
MatchAll(region, counts) ==
    IF counts = <<>> THEN [region |-> region, log |-> <<>>, unmatched |-> <<>>]
    ELSE LET before == MatchAll(region, SubSeq(counts, 1, Len(counts) - 1))
             item == counts[Len(counts)]
             found == MatchCountry(before.region, item.key)
         IN IF found.kind = "Unmatched"
            THEN [before EXCEPT !.unmatched = Append(@, item.key)]
            ELSE [before EXCEPT !.region = SetCount(@, found.mask, item.n),
                                !.log = Append(@, [country |-> item.key, kind |-> found.kind,
                                                   mask |-> found.mask])]

centroid(f) == <<(f.rect[1] + f.rect[3]) \div 2, (f.rect[2] + f.rect[4]) \div 2>>

\* Only the label drawn last is compared.
ChecksLastLabelOnly(new, existing_positions) ==
    /\ existing_positions # <<>>
    /\ LET last == existing_positions[Len(existing_positions)]
           dx == new[1] - last[1]
           dy == new[2] - last[2]
       IN dx * dx + dy * dy < min_distance * min_distance

\* distance < min_distance, compared on the squares.
check_label_overlap(new, existing_positions) ==
    \E i \in 1..Len(existing_positions) :
        LET dx == new[1] - existing_positions[i][1]
            dy == new[2] - existing_positions[i][2]
        IN dx * dx + dy * dy < min_distance * min_distance

WithinBounds(p, bounds) ==
    /\ bounds.min_lon <= p[1] /\ p[1] <= bounds.max_lon
    /\ bounds.min_lat <= p[2] /\ p[2] <= bounds.max_lat

\* map_region[sample_count > 0].sort_values('sample_count',
\* ascending=False): the possible results.
countries_with_data(region) ==
    LET with_data == SelectSeq(region, LAMBDA f : f.sample_count > 0)
    IN  DescendingOrders(with_data, [i \in 1..Len(with_data) |-> with_data[i].sample_count])

\* The label loop: the positions of the labels drawn.
RECURSIVE PlaceLabels(_, _)
PlaceLabels(with_data, bounds) ==
    IF with_data = <<>> THEN <<>>
    ELSE LET placed == PlaceLabels(SubSeq(with_data, 1, Len(with_data) - 1), bounds)
             c == centroid(with_data[Len(with_data)])
         IN IF WithinBounds(c, bounds) /\ ~check_label_overlap(c, placed)
            THEN Append(placed, c)
            ELSE placed

(***************************************************************************)
(* main: the command line and the files it is run on                       *)
(***************************************************************************)
SeqsUpTo(S, n) == UNION {[1..k -> S] : k \in 0..n}

Input(csv, count_column, unique_count, border_extension, bounds) ==
    [csv |-> csv, count_column |-> count_column, unique_count |-> unique_count,
     border_extension |-> border_extension, bounds |-> bounds]

\* --count-column and --unique-count
CountModes ==
    {[count_column |-> "", unique_count |-> FALSE],
     [count_column |-> "z", unique_count |-> FALSE],
     [count_column |-> "z", unique_count |-> TRUE]}

\* --border-extension: 0, the default of 5 degrees, 10 degrees
BorderExtensions == {HalfDegrees(0), HalfDegrees(5), HalfDegrees(10)}

\* --bounds: not given, a box around Europe, a box larger than the globe
CustomBounds ==
    {<<>>, <<HalfDegrees(-10), HalfDegrees(45), HalfDegrees(20), HalfDegrees(65)>>,
     <<HalfDegrees(-200), HalfDegrees(-100), HalfDegrees(200), HalfDegrees(100)>>}

CountingRows ==
    {CsvRow(c, z) : c \in {Belgium, Luxembourg}, z \in {NaN, <<"x">>, <<"y">>}}
        \cup {CsvRow(NaN, <<"x">>)}

DataCountries ==
    <<Niger, LowerCaseNiger, UK, DottedUK, Atlantis, Belgium, Netherlands, Luxembourg,
      RussianFederation, FrenchGuiana>>

\* One row per country, for some of the data countries.
MatchingRows ==
    {[i \in 1..Len(s) |-> CsvRow(DataCountries[s[i]], <<"x">>)] :
        s \in {t \in SeqsUpTo(1..Len(DataCountries), MaxCsvRows) :
                  \A i \in 1..Len(t) : \A j \in 1..Len(t) : i < j => t[i] < t[j]}}

CountingInputs ==
    {Input(CsvFile(TRUE, {"country", "z"}, rows), m.count_column, m.unique_count,
           HalfDegrees(5), <<>>) :
        rows \in SeqsUpTo(CountingRows, MaxCsvRows), m \in CountModes}

MatchingInputs ==
    {Input(CsvFile(TRUE, {"country", "z"}, rows), "", FALSE, b[1], b[2]) :
        rows \in MatchingRows,
        b \in (BorderExtensions \X {<<>>}) \cup ({HalfDegrees(5)} \X CustomBounds)}

\* An unreadable CSV file, one without the country column, one without
\* the count column.
FailingInputs ==
    {Input(CsvFile(FALSE, {}, <<>>), "", FALSE, HalfDegrees(5), <<>>),
     Input(CsvFile(TRUE, {"z"}, <<>>), "", FALSE, HalfDegrees(5), <<>>),
     Input(CsvFile(TRUE, {"country"}, <<CsvRow(Belgium, NaN)>>), "z", TRUE, HalfDegrees(5), <<>>)}

MapperInputs == CountingInputs \cup MatchingInputs \cup FailingInputs

\* sys.exit(status)
Exit(status) == /\ exit_status' = <<status>>
                /\ mp_pc' = "exit"

\* main, lines 593-597: find_shapefile returns a path or None.
FindShapefile ==
    /\ mp_pc = "start"
    /\ \E found \in BOOLEAN :
          IF found
          THEN /\ mp_pc' = "found"
               /\ UNCHANGED <<reported, exit_status>>
          ELSE /\ reported' = Append(reported, "Error: Could not find valid shapefile.")
               /\ Exit(1)
    /\ UNCHANGED <<mp_input, country_counts, map_bounds, map_region, unmatched_countries,
                   match_log, label_positions, fallback_charts>>
    /\ UNCHANGED <<sbVars, mgVars, txVars>>

\* main, lines 599-603
LoadData ==
    /\ mp_pc = "found"
    /\ \E loaded \in load_and_process_data(mp_input.csv, mp_input.count_column,
                                             mp_input.unique_count) :
          /\ country_counts' = loaded.counts
          /\ reported' = reported \o loaded.printed
          /\ IF loaded.counts = <<>>
             THEN Exit(1)
             ELSE /\ mp_pc' = "loaded"
                  /\ UNCHANGED exit_status
    /\ UNCHANGED <<mp_input, map_bounds, map_region, unmatched_countries, match_log,
                   label_positions, fallback_charts>>
    /\ UNCHANGED <<sbVars, mgVars, txVars>>

\* The outcomes of create_fallback_charts: it returns, or it raises.
FallbackOutcomes == {"returns", "raises"}

\* The outcomes of the file system under create_choropleth_map: the
\* shapefile cannot be read; the map is computed and saved; the map is
\* computed and plotting or saving it raises.
MapOutcomes == {"unreadable", "drawn", "raises"}

\* main, lines 605-623, with create_choropleth_map.
CreateMap ==
    /\ mp_pc = "loaded"
    /\ \E outcome \in MapOutcomes, fallback \in FallbackOutcomes :
          IF outcome = "unreadable"
          THEN /\ fallback_charts' = TRUE
               /\ reported' = reported \o <<"Error reading shapefile">>
                                \o (IF fallback = "raises" THEN <<"An error occurred">> ELSE <<>>)
               /\ Exit(IF fallback = "raises" THEN 1 ELSE 0)
               /\ UNCHANGED <<map_bounds, map_region, unmatched_countries, match_log,
                              label_positions>>
          ELSE \E bounds \in {calculate_map_bounds(
                                   FilteredWorld,
                                   [i \in 1..Len(country_counts[1]) |-> country_counts[1][i].key],
                                   mp_input.border_extension, mp_input.bounds)} :
               \E joined \in {MatchAll(cx(FilteredWorld, bounds), country_counts[1])} :
                  /\ map_bounds' = <<bounds>>
                  /\ map_region' = joined.region
                  /\ match_log' = joined.log
                  /\ unmatched_countries' = joined.unmatched
                  /\ \E with_data \in countries_with_data(joined.region) :
                        label_positions' = PlaceLabels(with_data, bounds)
                  /\ reported' = reported \o
                        (IF outcome = "raises" THEN <<"An error occurred">> ELSE <<>>)
                  /\ Exit(IF outcome = "raises" THEN 1 ELSE 0)
                  /\ UNCHANGED fallback_charts
    /\ UNCHANGED <<mp_input, country_counts>>
    /\ UNCHANGED <<sbVars, mgVars, txVars>>

MapperInit ==
    /\ mp_pc = "start"
    /\ mp_input \in MapperInputs
    /\ country_counts = <<>>
    /\ map_bounds = <<>>
    /\ map_region = <<>>
    /\ unmatched_countries = <<>>
    /\ match_log = <<>>
    /\ label_positions = <<>>
    /\ reported = <<>>
    /\ fallback_charts = FALSE
    /\ exit_status = <<>>

MapperIdle ==
    /\ mp_pc = "idle"
    /\ mp_input = <<>>
    /\ country_counts = <<>>
    /\ map_bounds = <<>>
    /\ map_region = <<>>
    /\ unmatched_countries = <<>>
    /\ match_log = <<>>
    /\ label_positions = <<>>
    /\ reported = <<>>
    /\ fallback_charts = FALSE
    /\ exit_status = <<>>

MapperNext == FindShapefile \/ LoadData \/ CreateMap

(***************************************************************************)
(* Properties of the choropleth mapper                                     *)
(***************************************************************************)
CsvRows == mp_input.csv.rows

\* The countries of the CSV file, missing cells left out.
CsvCountries == {CsvRows[i].country : i \in 1..Len(CsvRows)} \ {NaN}

RowIndexes(c) == {i \in 1..Len(CsvRows) : CsvRows[i].country = c}

DistinctValues(c) == {CsvRows[i].z : i \in RowIndexes(c)} \ {NaN}

AllValuesDiffer(c) ==
    \A i \in RowIndexes(c) : \A j \in RowIndexes(c) : i # j => CsvRows[i].z # CsvRows[j].z

NoValueMissing(c) == \A i \in RowIndexes(c) : CsvRows[i].z # NaN

CountedUnique ==
    /\ mp_pc \in {"loaded", "exit"}
    /\ country_counts # <<>>
    /\ mp_input.count_column = "z"
    /\ mp_input.unique_count

CountEntries(c) == {i \in 1..Len(country_counts[1]) : country_counts[1][i].key = c}

CountOf(c) == country_counts[1][CHOOSE i \in CountEntries(c) : TRUE].n

UniqueCountsAreDistinctValues ==
    /\ {country_counts[1][i].key : i \in 1..Len(country_counts[1])} = CsvCountries
    /\ \A c \in CsvCountries :
          /\ Cardinality(CountEntries(c)) = 1
          /\ CountOf(c) = Cardinality(DistinctValues(c))
          /\ CountOf(c) <= Cardinality(RowIndexes(c))

\* C11: in unique-count mode a country's count is the number of distinct
\* non-null values of Z among its rows (rows without a country excluded),
\* never exceeds the number of its rows, and equals that number exactly
\* when all Z values of the country differ.
C11_UniqueCountEqualsRowsWhenValuesDiffer ==
    CountedUnique =>
        /\ UniqueCountsAreDistinctValues
        /\ \A c \in CsvCountries :
              (CountOf(c) = Cardinality(RowIndexes(c))) <=> AllValuesDiffer(c)

\* C11 (amended): in unique-count mode a country's count is the number of
\* distinct non-null values of Z among its rows, never exceeds the number
\* of its rows, and equals that number exactly when no row of the country
\* has a missing Z and all its Z values differ.
C11_UniqueCountEqualsRowsWhenPresentAndDiffer ==
    CountedUnique =>
        /\ UniqueCountsAreDistinctValues
        /\ \A c \in CsvCountries :
              (CountOf(c) = Cardinality(RowIndexes(c)))
                  <=> (NoValueMissing(c) /\ AllValuesDiffer(c))

C11_Witness ==
    /\ CountedUnique
    /\ \E c \in CsvCountries :
          /\ Cardinality(RowIndexes(c)) = 2
          /\ AllValuesDiffer(c) /\ ~NoValueMissing(c)
          /\ CountOf(c) = 1
    /\ \E c \in CsvCountries : NoValueMissing(c) /\ CountOf(c) = Cardinality(RowIndexes(c))

MapComputed == mp_pc = "exit" /\ map_bounds # <<>>

DataCountriesCounted == {country_counts[1][i].key : i \in 1..Len(country_counts[1])}

\* text contains pat as a substring, letter case ignored.
IsSubstring(text, pat) ==
    \E k \in 1..(Len(text) - Len(pat) + 1) :
        \A j \in 1..Len(pat) : Lower(pat[j]) = Lower(text[k + j - 1])

ExactFeatures(c, col) ==
    {i \in 1..Len(map_region) : map_region[i].names[col] = country_mapping(c)}

HasExactMatch(c) == \E col \in 1..4 : ExactFeatures(c, col) # {}

HasSubstringMatch(c) ==
    \E col \in 1..4 : \E i \in 1..Len(map_region) : IsSubstring(map_region[i].names[col], c)

LogLines(c) == {i \in 1..Len(match_log) : match_log[i].country = c}

\* C12: a data country is matched exactly on the lookup-table name in the
\* first of NAME, NAME_LONG, NAME_EN, ADMIN that has such a feature; the
\* case-insensitive substring match is attempted only when no column gives
\* an exact match; the country is listed as unmatched if and only if both
\* the exact and the substring search find no feature.
C12_ExactThenSubstring ==
    MapComputed =>
        \A c \in DataCountriesCounted :
            /\ HasExactMatch(c) =>
                  \E i \in LogLines(c) :
                      /\ match_log[i].kind = "Matched"
                      /\ \E col \in 1..4 :
                            /\ match_log[i].mask = ExactFeatures(c, col)
                            /\ ExactFeatures(c, col) # {}
                            /\ \A b \in 1..(col - 1) : ExactFeatures(c, b) = {}
            /\ \A i \in LogLines(c) :
                  match_log[i].kind = "Fuzzy matched" => ~HasExactMatch(c)
            /\ (c \in Range(unmatched_countries))
                  <=> (~HasExactMatch(c) /\ ~HasSubstringMatch(c))

SquaredDistance(p, q) == (p[1] - q[1]) * (p[1] - q[1]) + (p[2] - q[2]) * (p[2] - q[2])

\* C13: any two count labels drawn on the map have centroid positions at
\* Euclidean distance at least min_distance (1.5 degrees) from each other.
C13_LabelsKeepMinDistance ==
    MapComputed =>
        \A i \in 1..Len(label_positions) : \A j \in 1..Len(label_positions) :
            i # j => SquaredDistance(label_positions[i], label_positions[j]) >= 3 * 3

\* Two labels exactly 1.5 degrees apart are drawn, and a third feature with
\* data inside the bounds goes without a label.
C13_Witness ==
    /\ MapComputed
    /\ \E i \in 1..Len(label_positions) : \E j \in 1..Len(label_positions) :
          SquaredDistance(label_positions[i], label_positions[j]) = 3 * 3
    /\ \E i \in 1..Len(map_region) :
          /\ map_region[i].sample_count > 0
          /\ WithinBounds(centroid(map_region[i]), map_bounds[1])
          /\ centroid(map_region[i]) \notin Range(label_positions)

\* The features calculate_map_bounds takes the bounding box of.
BoxFeatures ==
    LET world == FilteredWorld
        found == UNION {MatchCountry(world, c).mask : c \in DataCountriesCounted}
    IN {world[i].rect : i \in IF found = {} THEN 1..Len(world) ELSE found}

Least(S) == CHOOSE x \in S : \A y \in S : x <= y

Greatest(S) == CHOOSE x \in S : \A y \in S : x >= y

\* C14: with custom bounds the map bounds are the four numbers as given;
\* otherwise they are the bounding box of the matched features (of all
\* features when none matched) widened by border_extension on all four
\* sides and then clamped to longitude -180..180 and latitude -90..90.
C14_BoundsCustomOrWidenedAndClamped ==
    MapComputed =>
        LET b == map_bounds[1]
            e == mp_input.border_extension
        IN IF mp_input.bounds # <<>>
           THEN <<b.min_lon, b.min_lat, b.max_lon, b.max_lat>> = mp_input.bounds
           ELSE /\ b.min_lon = Max(Least({r[1] : r \in BoxFeatures}) - e, -360)
                /\ b.min_lat = Max(Least({r[2] : r \in BoxFeatures}) - e, -180)
                /\ b.max_lon = -Max(-(Greatest({r[3] : r \in BoxFeatures}) + e), -360)
                /\ b.max_lat = -Max(-(Greatest({r[4] : r \in BoxFeatures}) + e), -180)
                /\ b.min_lon >= -360 /\ b.max_lon <= 360
                /\ b.min_lat >= -180 /\ b.max_lat <= 180

\* Matched features whose widened box crosses 180 degrees east and 90
\* degrees north, and is cut there.
C14_Witness ==
    /\ MapComputed
    /\ mp_input.bounds = <<>>
    /\ match_log # <<>>
    /\ Greatest({r[3] : r \in BoxFeatures}) + mp_input.border_extension > 360
    /\ Greatest({r[4] : r \in BoxFeatures}) + mp_input.border_extension > 180
    /\ map_bounds[1].max_lon = 360
    /\ map_bounds[1].max_lat = 180

ShapefileUnreadable == "Error reading shapefile" \in Range(reported)

\* The map was computed and plotting or saving it raised.
RenderingRaised == map_bounds # <<>> /\ exit_status = <<1>>

\* C15: whenever shapefile rendering fails in create_choropleth_map (the
\* shapefile cannot be read, or plotting or saving the map raises), main
\* calls create_fallback_charts.
C15_FallbackWheneverRenderingFails ==
    (mp_pc = "exit" /\ (ShapefileUnreadable \/ RenderingRaised)) => fallback_charts

\* C16: every run of the mapper in which an error is caught and reported
\* ends with a non-zero exit status.
C16_ReportedErrorExitsNonZero ==
    (mp_pc = "exit" /\ reported # <<>>) => exit_status # <<0>>

(***************************************************************************)
(* Specifications                                                          *)
(***************************************************************************)
InitSunburst == SunburstInit /\ MergeIdle /\ TaxonomyIdle /\ MapperIdle

SpecSunburst == InitSunburst /\ [][SunburstNext]_vars

InitLoad == LoadInit /\ MergeIdle /\ TaxonomyIdle /\ MapperIdle

SpecLoad == InitLoad /\ [][LoadNext]_vars

InitMerge == MergeInit /\ SunburstIdle /\ TaxonomyIdle /\ MapperIdle

SpecMerge == InitMerge /\ [][MergeNext]_vars

InitTaxonomy == TaxonomyInit /\ SunburstIdle /\ MergeIdle /\ MapperIdle

SpecTaxonomy == InitTaxonomy /\ [][TaxonomyNext]_vars

InitMapper == MapperInit /\ SunburstIdle /\ MergeIdle /\ TaxonomyIdle

SpecMapper == InitMapper /\ [][MapperNext]_vars

====
